---- MODULE Spec2Model ----
(***************************************************************************)
(* A model of the appscreen screenshot composer: the global `state`        *)
(* singleton with its composition units and defaults, the settings         *)
(* setters, the two render pipelines (main canvas and per-unit preview     *)
(* canvases), batch export, IndexedDB persistence and project languages.   *)
(*                                                                         *)
(* JavaScript objects are records.  Every mutable settings object carries  *)
(* an `id` field that stands for its identity (its heap address): two      *)
(* holders with the same id of the same kind hold the SAME object, and a   *)
(* write through one of them is applied to every holder (the Write...      *)
(* operators).  JSON.parse(JSON.stringify(x)) allocates new objects, so it *)
(* gives every nested object the id of its new owner.  An absent JS        *)
(* property is a field that is not in the record's DOMAIN.                 *)
(***************************************************************************)
EXTENDS Integers, Sequences, FiniteSets, TLC

\* ---------------------------------------------------------------- bounds
MaxUnits == 2          \* most composition units alive at once
MaxPending == 1        \* most uploaded files being decoded at once
MaxStops == 3          \* most gradient stops of one background
MaxLoads == 1          \* most loadState invocations in flight at once

\* ------------------------------------------------------- program constants
DefaultNoiseIntensity == 10
DefaultShadowOpacity == 30
DefaultScale == 70
DefaultLineHeight == 110
DefaultHeadlineSize == 100
DefaultSubheadlineSize == 50

VARIABLES
    state,                    \* the `state` singleton (part_001:568)
    db,                       \* "null" or "open": the IndexedDB handle
    store,                    \* PROJECTS_STORE: project id -> stored record
    currentProjectId,
    projects,                 \* the projects list with screenshot counts
    canvas,                   \* what the main preview canvas holds
    side,                     \* the four side preview canvases
    sideClick,                \* index captured by the left/right onclick
    slide,                    \* the running slide transition, isSliding
    phoneModelLoaded,         \* the 3D backend has a phone model loaded
    threeDefined,             \* the 3D renderer script is on the page
    pendingFiles,             \* uploads whose image decode is in flight
    loads,                    \* init / loadState invocations in flight
    exp,                      \* the exportAll coroutine
    md,                       \* the generateMagicalDesigns coroutine
    currentTranslationsIndex, \* unit shown in the translations modal
    pendingTrans,             \* translation images being decoded
    lastSaved,                \* history: the project as of the last saveState call,
                              \* and the save / load round trip in progress
    call,                     \* the language utility being called, with its
                              \* arguments and what it returns
    modal,                    \* the translate modal and the aiTranslateAll call
    dup                       \* the duplicate-screenshot dialog and its promises

vars == <<state, db, store, currentProjectId, projects, canvas, side, sideClick,
          slide, phoneModelLoaded, threeDefined, call, modal, dup, pendingFiles, loads,
          exp, md, currentTranslationsIndex, pendingTrans, lastSaved>>

\* no language utility is being called
NoCall == [fn |-> "none"]

\* the duplicate-screenshot dialog before it is first shown: element tells
\* whether the page has the #duplicate-screenshot-modal element,
\* currentDuplicateResolve is the number of the promise whose resolve function
\* the variable holds (0 for null), promises[k] is "pending" or the value the
\* k-th promise returned by showDuplicateDialog resolved with, newName is the
\* number of the call whose parameters window._duplicateNew* hold (0 for null)
ClosedDialog(element) ==
    [element |-> element, visible |-> FALSE, currentDuplicateResolve |-> 0,
     promises |-> << >>, newName |-> 0]

\* the translate modal before it is first opened: no target, no items, the
\* AI button enabled, no status text, no aiTranslateAll call awaiting a reply
ClosedModal ==
    [target |-> "null", visible |-> FALSE, sourceLang |-> "", items |-> << >>,
     disabled |-> FALSE,
     status |-> [message |-> << >>, type |-> ""], pc |-> "idle",
     targetLangs |-> << >>, error |-> << >>, failure |-> "none"]

\* ------------------------------------------------------------ JS objects
\* null for an object or string value; a null index is -1
Null == "null"
Langs == {"en", "de", "fr"}
FileNames == {"a.png", "b.png"}

Has(o, f) == f \in DOMAIN o
Put(o, f, v) == (f :> v) @@ o
Del(o, f) == [k \in (DOMAIN o) \ {f} |-> o[k]]

\* Array.prototype.indexOf / includes / splice(i, 1) on a sequence
Includes(s, x) == \E k \in 1..Len(s) : s[k] = x
RemoveAt(s, k) == [j \in 1..(Len(s) - 1) |-> IF j < k THEN s[j] ELSE s[j + 1]]
InsertAt(s, k, x) ==
    [j \in 1..(Len(s) + 1) |-> IF j < k THEN s[j] ELSE IF j = k THEN x ELSE s[j - 1]]
RemoveValue(s, x) ==
    IF Includes(s, x)
    THEN RemoveAt(s, CHOOSE k \in 1..Len(s) : s[k] = x /\ \A j \in 1..(k - 1) : s[j] # x)
    ELSE s

\* A hole of the sparse screenshots array (state.screenshots[i] === undefined)
Undefined == [uid |-> 0]
IsUnit(u) == u.uid # 0

\* state.defaults as the `state` literal sets it; `owner` names the objects
InitialBackground(owner) ==
    [id |-> owner, type |-> "gradient",
     gradient |-> [id |-> owner, angle |-> 135,
                   stops |-> [id |-> owner,
                              items |-> << [color |-> "#667eea", position |-> 0],
                                           [color |-> "#764ba2", position |-> 100] >>]],
     solid |-> "#1a1a2e", image |-> Null, imageFit |-> "cover", imageBlur |-> 0,
     overlayColor |-> "#000000", overlayOpacity |-> 0,
     noise |-> FALSE, noiseIntensity |-> DefaultNoiseIntensity]

InitialShadow(owner) ==
    [id |-> owner, enabled |-> TRUE, color |-> "#000000", blur |-> 40,
     opacity |-> DefaultShadowOpacity, x |-> 0, y |-> 20]

InitialFrame(owner) ==
    [id |-> owner, enabled |-> FALSE, color |-> "#1d1d1f", width |-> 12, opacity |-> 100]

InitialScreenshot(owner) ==
    [id |-> owner, scale |-> DefaultScale, y |-> 55, x |-> 50, rotation |-> 0,
     perspective |-> 0, cornerRadius |-> 24, use3D |-> FALSE, device3D |-> "iphone",
     rotation3D |-> [id |-> owner, x |-> 0, y |-> 0, z |-> 0],
     shadow |-> InitialShadow(owner), frame |-> InitialFrame(owner)]

InitialText(owner) ==
    [id |-> owner, headlineEnabled |-> TRUE,
     headlines |-> [id |-> owner, map |-> [l \in {"en"} |-> ""]],
     headlineLanguages |-> <<"en">>, currentHeadlineLang |-> "en",
     headlineFont |-> "system", headlineSize |-> DefaultHeadlineSize,
     headlineWeight |-> "600", headlineItalic |-> FALSE, headlineUnderline |-> FALSE,
     headlineStrikethrough |-> FALSE, headlineColor |-> "#ffffff",
     position |-> "top", offsetY |-> 12, lineHeight |-> DefaultLineHeight,
     subheadlineEnabled |-> FALSE,
     subheadlines |-> [id |-> owner, map |-> [l \in {"en"} |-> ""]],
     subheadlineLanguages |-> <<"en">>, currentSubheadlineLang |-> "en",
     subheadlineFont |-> "system", subheadlineSize |-> DefaultSubheadlineSize,
     subheadlineWeight |-> "400", subheadlineItalic |-> FALSE,
     subheadlineUnderline |-> FALSE, subheadlineStrikethrough |-> FALSE,
     subheadlineColor |-> "#ffffff", subheadlineOpacity |-> 70]

InitialDefaults ==
    [background |-> InitialBackground(0), screenshot |-> InitialScreenshot(0),
     text |-> InitialText(0)]

InitialState ==
    [screenshots |-> << >>, selectedIndex |-> 0, transferTarget |-> -1,
     outputDevice |-> "iphone-6.9", currentLanguage |-> "en",
     projectLanguages |-> <<"en">>, customWidth |-> 1290, customHeight |-> 2796,
     defaults |-> InitialDefaults]

\* resetStateToDefaults: like the literal, but the screenshot defaults have no
\* use3D/device3D/rotation3D and the text defaults no headlineEnabled/
\* subheadlineEnabled, and the custom size is 1320 x 2868
ResetDefaults ==
    [background |-> InitialBackground(0),
     screenshot |-> Del(Del(Del(InitialScreenshot(0), "use3D"), "device3D"), "rotation3D"),
     text |-> Del(Del(InitialText(0), "headlineEnabled"), "subheadlineEnabled")]

resetStateToDefaults(st) ==
    [st EXCEPT !.screenshots = << >>, !.selectedIndex = 0,
               !.outputDevice = "iphone-6.9", !.customWidth = 1320,
               !.customHeight = 2868, !.currentLanguage = "en",
               !.projectLanguages = <<"en">>, !.defaults = ResetDefaults]

\* JSON.parse(JSON.stringify(x)): new objects throughout (ids of the new
\* owner); an Image value does not survive, it comes back as the object {}
EmptyObject == "{}"
JsonImage(img) == IF img = Null THEN Null ELSE EmptyObject

JsonCopyBackground(bg, owner) ==
    [bg EXCEPT !.id = owner,
               !.gradient = [@ EXCEPT !.id = owner, !.stops = [@ EXCEPT !.id = owner]],
               !.image = JsonImage(@)]

JsonCopyScreenshot(ss, owner) ==
    LET a == [ss EXCEPT !.id = owner, !.shadow = [@ EXCEPT !.id = owner],
                        !.frame = [@ EXCEPT !.id = owner]]
    IN IF Has(ss, "rotation3D") THEN [a EXCEPT !.rotation3D = [@ EXCEPT !.id = owner]]
       ELSE a

JsonCopyText(txt, owner) ==
    [txt EXCEPT !.id = owner, !.headlines = [@ EXCEPT !.id = owner],
                !.subheadlines = [@ EXCEPT !.id = owner]]

\* The values of settings objects with identities erased (deep equality)
StripBackground(bg) == [JsonCopyBackground(bg, 0) EXCEPT !.image = bg.image]
StripScreenshot(ss) == JsonCopyScreenshot(ss, 0)
StripText(txt) == JsonCopyText(txt, 0)

\* ------------------------------------------------- references and writes
Holders(st) == {st.screenshots[k] : k \in {j \in 1..Len(st.screenshots) : IsUnit(st.screenshots[j])}}
                  \cup {st.defaults}

\* Apply F to every unit and to state.defaults
MapHolders(st, F(_)) ==
    [st EXCEPT !.screenshots = [k \in 1..Len(@) |-> IF IsUnit(@[k]) THEN F(@[k]) ELSE @[k]],
               !.defaults = F(@)]

\* obj.<...> = ... on the object `id` of kind top / top.sub / background.gradient.stops:
\* every holder of that object sees the write
WriteTop(st, top, id, G(_)) ==
    MapHolders(st, LAMBDA c : IF c[top].id = id THEN [c EXCEPT ![top] = G(@)] ELSE c)

WriteSub(st, top, sub, id, G(_)) ==
    MapHolders(st, LAMBDA c : IF Has(c[top], sub) /\ c[top][sub].id = id
                              THEN [c EXCEPT ![top][sub] = G(@)] ELSE c)

WriteStops(st, id, G(_)) ==
    MapHolders(st, LAMBDA c : IF c.background.gradient.stops.id = id
                              THEN [c EXCEPT !.background.gradient.stops = G(@)] ELSE c)

\* ----------------------------------------------------- settings resolver
getCurrentScreenshot(st) ==
    IF Len(st.screenshots) = 0 THEN Undefined
    ELSE IF st.selectedIndex + 1 \in 1..Len(st.screenshots)
         THEN st.screenshots[st.selectedIndex + 1] ELSE Undefined

getBackground(st) ==
    LET s == getCurrentScreenshot(st) IN IF IsUnit(s) THEN s.background ELSE st.defaults.background

\* getScreenshotSettings reading the defaults whatever unit is selected
getScreenshotSettingsOfDefaults(st) == st.defaults.screenshot

getScreenshotSettings(st) ==
    LET s == getCurrentScreenshot(st) IN IF IsUnit(s) THEN s.screenshot ELSE st.defaults.screenshot

getText(st) ==
    LET s == getCurrentScreenshot(st) IN IF IsUnit(s) THEN s.text ELSE st.defaults.text

\* A setter that falls back to the defaults when there is no current unit
SetOnDefaults(st, top, key, value) ==
    LET s == getCurrentScreenshot(st)
        c == IF IsUnit(s) THEN s ELSE st.defaults
    IN IF Len(key) = 2
       THEN WriteSub(st, top, key[1], c[top][key[1]].id, LAMBDA o : Put(o, key[2], value))
       ELSE WriteTop(st, top, c[top].id, LAMBDA o : Put(o, key[1], value))

\* The dotted form reads obj[parts[0]] and assigns to a property of what it
\* read: a TypeError when the current unit's object has no such property
SetThrows(st, top, key) ==
    LET s == getCurrentScreenshot(st) IN
    IsUnit(s) /\ Len(key) = 2 /\ ~Has(s[top], key[1])

\* setBackground / setScreenshotSetting with a plain key <<k>> or a dotted key
\* <<p, k>>; the dotted form walks to the nested object and writes its leaf.
\* Nothing has been written when the walk throws.
SetOn(st, top, key, value) ==
    LET s == getCurrentScreenshot(st) IN
    IF ~IsUnit(s) THEN st
    ELSE IF Len(key) = 2
         THEN IF ~Has(s[top], key[1]) THEN st
              ELSE WriteSub(st, top, key[1], s[top][key[1]].id,
                            LAMBDA o : Put(o, key[2], value))
         ELSE WriteTop(st, top, s[top].id, LAMBDA o : Put(o, key[1], value))

setBackground(st, key, value) == SetOn(st, "background", key, value)
setScreenshotSetting(st, key, value) == SetOn(st, "screenshot", key, value)

setTextSetting(st, key, value) ==
    LET s == getCurrentScreenshot(st) IN
    IF ~IsUnit(s) THEN st
    ELSE WriteTop(st, "text", s.text.id, LAMBDA o : Put(o, key, value))

\* ----------------------------------------------------------- rendering
\* A canvas holds its size and the layers drawn on it since it was cleared.
Blank == [dims |-> [width |-> 300, height |-> 150], layers |-> << >>]

\* What a preview canvas that is not displayed holds: whatever was drawn on
\* it when it was last displayed
Stale == [dims |-> [width |-> 300, height |-> 150], layers |-> <<[op |-> "stale"]>>]

deviceDimensions ==
    [d \in {"iphone-6.9", "web-og"} |->
        IF d = "iphone-6.9" THEN [width |-> 1320, height |-> 2868]
        ELSE [width |-> 1200, height |-> 630]]

getCanvasDimensions(st) ==
    IF st.outputDevice = "custom"
    THEN [width |-> st.customWidth, height |-> st.customHeight]
    ELSE deviceDimensions[st.outputDevice]

\* Math.round of the non-negative rational n / d
Round(n, d) == (2 * n + d) \div (2 * d)

\* The placement and styling parameters both 2D image routines read
ImageParams(settings) ==
    [scale |-> settings.scale, x |-> settings.x, y |-> settings.y,
     rotation |-> settings.rotation, perspective |-> settings.perspective,
     cornerRadius |-> settings.cornerRadius,
     frame |-> IF settings.frame.enabled
               THEN [color |-> settings.frame.color, width |-> settings.frame.width,
                     opacity |-> settings.frame.opacity]
               ELSE [color |-> Null, width |-> 0, opacity |-> 0]]

\* Shadow colour and alpha; alpha is kept as alpha * 25500 to stay integral.
\* drawScreenshot: hexToRgba(color, opacity / 100)
ShadowMain(settings) ==
    IF settings.shadow.enabled
    THEN [color |-> settings.shadow.color, alpha25500 |-> settings.shadow.opacity * 255,
          blur |-> settings.shadow.blur, x |-> settings.shadow.x, y |-> settings.shadow.y]
    ELSE [color |-> Null, alpha25500 |-> 0, blur |-> 0, x |-> 0, y |-> 0]

\* drawScreenshotToContext: color + two hex digits of round(opacity / 100 * 255)
ShadowToContext(settings) ==
    IF Has(settings, "shadow") /\ settings.shadow.enabled
    THEN [color |-> settings.shadow.color,
          alpha25500 |-> Round(settings.shadow.opacity * 255, 100) * 100,
          blur |-> settings.shadow.blur, x |-> settings.shadow.x, y |-> settings.shadow.y]
    ELSE [color |-> Null, alpha25500 |-> 0, blur |-> 0, x |-> 0, y |-> 0]

drawBackground(st) ==
    <<[op |-> "background", bg |-> StripBackground(getBackground(st))]>>

drawBackgroundToContext(bg) ==
    <<[op |-> "background", bg |-> StripBackground(bg)]>>

\* The noise amplitude is the factor of (Math.random() - 0.5), times 100
drawNoise(st) ==
    <<[op |-> "noise", amplitude100 |-> getBackground(st).noiseIntensity * 50]>>

drawNoiseToContext(intensity) ==
    <<[op |-> "noise", amplitude100 |-> 255 * intensity]>>

drawScreenshot(st) ==
    LET screenshot == IF st.selectedIndex + 1 \in 1..Len(st.screenshots)
                      THEN st.screenshots[st.selectedIndex + 1] ELSE Undefined
        settings == getScreenshotSettings(st)
    IN IF ~IsUnit(screenshot) THEN << >>
       ELSE <<[op |-> "image2D", img |-> screenshot.image,
               params |-> ImageParams(settings), shadow |-> ShadowMain(settings)]>>

drawScreenshotToContext(img, settings) ==
    IF img = Null THEN << >>
    ELSE <<[op |-> "image2D", img |-> img,
            params |-> ImageParams(settings), shadow |-> ShadowToContext(settings)]>>

\* The external 3D renderer, drawing the unit at `index` with its texture
render3D(index) == <<[op |-> "image3D", index |-> index]>>

\* map[lang || 'en'] || '' when the element is enabled, '' otherwise
TextOf(enabled, map, lang) ==
    LET l == IF lang = Null THEN "en" ELSE lang
    IN IF enabled /\ Has(map, l) THEN map[l] ELSE ""

\* What the text layer reads: the headline and subheadline of the current
\* languages, and the style values
TextParams(txt) ==
    [k \in (DOMAIN txt) \ {"id", "headlines", "subheadlines", "headlineLanguages",
                           "subheadlineLanguages", "currentHeadlineLang",
                           "currentSubheadlineLang"} |-> txt[k]]
    @@ [headline |-> TextOf(~Has(txt, "headlineEnabled") \/ txt.headlineEnabled,
                            txt.headlines.map, txt.currentHeadlineLang),
        subheadline |-> TextOf(Has(txt, "subheadlineEnabled") /\ txt.subheadlineEnabled,
                               txt.subheadlines.map, txt.currentSubheadlineLang)]

drawText(st) == <<[op |-> "text", txt |-> TextParams(getText(st))]>>
drawTextToContext(txt) == <<[op |-> "text", txt |-> TextParams(txt)]>>

use3DOf(ss) == IF Has(ss, "use3D") THEN ss.use3D ELSE FALSE

\* updateCanvas drawing the 2D screenshot in 3D mode as well
MainLayersBoth(st, ready) ==
    drawBackground(st)
    \o (IF getBackground(st).noise THEN drawNoise(st) ELSE << >>)
    \o (IF Len(st.screenshots) > 0
        THEN (IF use3DOf(getScreenshotSettings(st)) /\ ready
              THEN render3D(st.selectedIndex) ELSE << >>) \o drawScreenshot(st)
        ELSE << >>)
    \o drawText(st)

\* updateCanvas, the layers it draws on the main canvas; `ready` is
\* typeof renderThreeJSToCanvas === 'function' && phoneModelLoaded
MainLayers(st, ready) ==
    drawBackground(st)
    \o (IF getBackground(st).noise THEN drawNoise(st) ELSE << >>)
    \o (IF Len(st.screenshots) > 0
        THEN IF use3DOf(getScreenshotSettings(st)) /\ ready THEN render3D(st.selectedIndex)
             ELSE IF ~use3DOf(getScreenshotSettings(st)) THEN drawScreenshot(st)
             ELSE << >>
        ELSE << >>)
    \o drawText(st)

MainCanvas(st, ready) ==
    [dims |-> getCanvasDimensions(st), layers |-> MainLayers(st, ready)]

\* renderScreenshotToCanvas with the noise pass moved behind the image layer
UnitLayersNoiseLate(st, index, ready) ==
    LET screenshot == st.screenshots[index + 1]
        bg == screenshot.background
        settings == screenshot.screenshot
    IN drawBackgroundToContext(bg)
       \o (IF use3DOf(settings) /\ ready THEN render3D(index)
           ELSE drawScreenshotToContext(screenshot.image, settings))
       \o (IF bg.noise THEN drawNoiseToContext(bg.noiseIntensity) ELSE << >>)
       \o drawTextToContext(screenshot.text)

\* renderScreenshotToCanvas: the layers for the unit at `index`
UnitLayers(st, index, ready) ==
    LET screenshot == st.screenshots[index + 1]
        bg == screenshot.background
        settings == screenshot.screenshot
    IN drawBackgroundToContext(bg)
       \o (IF bg.noise THEN drawNoiseToContext(bg.noiseIntensity) ELSE << >>)
       \o (IF use3DOf(settings) /\ ready THEN render3D(index)
           ELSE drawScreenshotToContext(screenshot.image, settings))
       \o drawTextToContext(screenshot.text)

\* renderScreenshotToCanvas returns before touching the canvas when there is
\* no such unit (or it has no image): the canvas keeps what it held
renderScreenshotToCanvas(st, index, dims, ready, old) ==
    IF index + 1 \in 1..Len(st.screenshots) /\ IsUnit(st.screenshots[index + 1])
       /\ st.screenshots[index + 1].image # Null
    THEN [dims |-> dims, layers |-> UnitLayers(st, index, ready)]
    ELSE old

\* One of the four side preview canvases after updateSidePreviews
SideAfter(st, index, minLen, skip, ready, old) ==
    IF index >= 0 /\ index < Len(st.screenshots) /\ Len(st.screenshots) > minLen
    THEN [old EXCEPT !.hidden = FALSE,
                     !.content = IF skip THEN @
                                ELSE renderScreenshotToCanvas(st, index, getCanvasDimensions(st),
                                                              ready, @)]
    ELSE [hidden |-> TRUE, content |-> IF old.content = Blank THEN Blank ELSE Stale]

updateSidePreviews(st, skip, ready, old) ==
    [left |-> SideAfter(st, st.selectedIndex - 1, 1, skip, ready, old.left),
     farLeft |-> SideAfter(st, st.selectedIndex - 2, 2, FALSE, ready, old.farLeft),
     right |-> SideAfter(st, st.selectedIndex + 1, 1, skip, ready, old.right),
     farRight |-> SideAfter(st, st.selectedIndex + 2, 2, FALSE, ready, old.farRight)]

\* The index the onclick closure of the left / right preview captured; -1
\* for a hidden preview, whose handler cannot run
SideClickAfter(st) ==
    [left |-> IF st.selectedIndex - 1 >= 0 /\ Len(st.screenshots) > 1
              THEN st.selectedIndex - 1 ELSE -1,
     right |-> IF st.selectedIndex + 1 < Len(st.screenshots) /\ Len(st.screenshots) > 1
               THEN st.selectedIndex + 1 ELSE -1]

\* ---------------------------------------------------------- persistence
\* What deep equality of two projects compares: values without identities
ViewUnit(s) ==
    IF IsUnit(s)
    THEN [image |-> s.image, name |-> s.name, background |-> StripBackground(s.background),
          screenshot |-> StripScreenshot(s.screenshot), text |-> StripText(s.text)]
    ELSE [image |-> Null]

View(st) ==
    [units |-> [k \in 1..Len(st.screenshots) |-> ViewUnit(st.screenshots[k])],
     selectedIndex |-> st.selectedIndex, outputDevice |-> st.outputDevice,
     customWidth |-> st.customWidth, customHeight |-> st.customHeight,
     currentLanguage |-> st.currentLanguage, projectLanguages |-> st.projectLanguages,
     defaults |-> [background |-> StripBackground(st.defaults.background),
                   screenshot |-> StripScreenshot(st.defaults.screenshot),
                   text |-> StripText(st.defaults.text)]]

\* saveState's stateToSave; Array.prototype.map keeps the holes
stateToSave(st, pid) ==
    [id |-> pid,
     screenshots |-> [k \in 1..Len(st.screenshots) |->
                        LET u == st.screenshots[k] IN
                        IF IsUnit(u)
                        THEN [uid |-> u.uid, src |-> u.image, name |-> u.name,
                              background |-> u.background, screenshot |-> u.screenshot,
                              text |-> u.text]
                        ELSE Undefined],
     selectedIndex |-> st.selectedIndex, outputDevice |-> st.outputDevice,
     customWidth |-> st.customWidth, customHeight |-> st.customHeight,
     currentLanguage |-> st.currentLanguage, projectLanguages |-> st.projectLanguages,
     defaults |-> st.defaults]

\* store.put makes a structured clone of the record, which throws
\* DataCloneError when the record reaches an HTMLImageElement
IsImageElement(v) == v \notin {Null, EmptyObject}
DataCloneError(st) == \E c \in Holders(st) : IsImageElement(c.background.image)

StoreAfterSave(st, dbh, pid, old) ==
    IF dbh # "open" \/ DataCloneError(st) THEN old
    ELSE [q \in DOMAIN old \cup {pid} |-> IF q = pid THEN stateToSave(st, pid) ELSE old[q]]

ProjectsAfterSave(st, dbh, pid, old) ==
    IF dbh # "open" THEN old
    ELSE [k \in 1..Len(old) |->
            IF old[k].id = pid THEN [old[k] EXCEPT !.screenshotCount = Len(st.screenshots)]
            ELSE old[k]]

\* ------------------------------------------------- the state after a step
\* typeof renderThreeJS... === 'function' && phoneModelLoaded
Ready == threeDefined /\ phoneModelLoaded

\* The project as of the last saveState call that reached store.put (view);
\* trip follows one save / reload / load round trip: "loading" from the
\* reload until the last image decode, then "done"; any other event that
\* calls saveState ends it ("none").  expect is the view as of the reload
\* while a round trip is followed.
SavedAfter(new, trip) ==
    LET view == IF db = "open" THEN View(new) ELSE lastSaved.view
    IN [view |-> view, trip |-> trip,
        expect |-> IF trip = "none" THEN view ELSE lastSaved.expect]

\* updateCanvas() that gives up when saveState() could not write
UpdateCanvasSavedOnly(new, skip, oldSide, trip) ==
    /\ state' = new
    /\ store' = StoreAfterSave(new, db, currentProjectId, store)
    /\ projects' = ProjectsAfterSave(new, db, currentProjectId, projects)
    /\ lastSaved' = SavedAfter(new, trip)
    /\ canvas' = IF db # "open" \/ DataCloneError(new) THEN canvas ELSE MainCanvas(new, Ready)
    /\ side' = updateSidePreviews(new, skip, Ready, oldSide)
    /\ sideClick' = SideClickAfter(new)

\* updateCanvas() run on state `new`, with the side canvases holding `oldSide`
UpdateCanvasFrom(new, skip, oldSide, trip) ==
    /\ state' = new
    /\ store' = StoreAfterSave(new, db, currentProjectId, store)
    /\ projects' = ProjectsAfterSave(new, db, currentProjectId, projects)
    /\ lastSaved' = SavedAfter(new, trip)
    /\ canvas' = MainCanvas(new, Ready)
    /\ side' = updateSidePreviews(new, skip, Ready, oldSide)
    /\ sideClick' = SideClickAfter(new)

\* A handler that changes `state` to `new` and ends in updateCanvas()
UpdateCanvas(new) == UpdateCanvasFrom(new, FALSE, side, "none")

\* Unit identities: a new unit takes the smallest uid that no unit has and
\* that a running export does not remember
UnitUids(st) == {st.screenshots[k].uid : k \in 1..Len(st.screenshots)} \ {0}

UsedUids == UnitUids(state) \cup {exp.units[k] : k \in 1..Len(exp.units)}
                           \cup {md.units[k] : k \in 1..Len(md.units)}

FreshUid == CHOOSE n \in 1..(Cardinality(UsedUids) + 1) : n \notin UsedUids

NumUnits(st) == Cardinality(UnitUids(st))

\* ------------------------------------------------------------- initial state
\* The page after its first visit: init() found no stored project, so
\* loadState ran resetStateToDefaults, and updateCanvas saved and rendered.
FirstState == resetStateToDefaults(InitialState)

HiddenSide == [hidden |-> TRUE, content |-> Blank]
InitialSide == [left |-> HiddenSide, farLeft |-> HiddenSide,
                right |-> HiddenSide, farRight |-> HiddenSide]
IdleSlide == [pc |-> "idle", newIndex |-> 0, dims |-> [width |-> 0, height |-> 0]]
IdleExport == [pc |-> "idle", i |-> 0, originalIndex |-> 0, units |-> << >>,
               entries |-> << >>]

InitPage ==
    /\ state = FirstState
    /\ db = "open"
    /\ currentProjectId = "default"
    /\ store = [q \in {"default"} |-> stateToSave(FirstState, "default")]
    /\ projects = <<[id |-> "default", name |-> "Default Project", screenshotCount |-> 0]>>
    /\ threeDefined \in BOOLEAN
    /\ call = NoCall
    /\ modal = ClosedModal
    /\ phoneModelLoaded = FALSE
    /\ canvas = MainCanvas(FirstState, FALSE)
    /\ side = InitialSide
    /\ sideClick = [left |-> -1, right |-> -1]
    /\ slide = IdleSlide
    /\ pendingFiles = << >>
    /\ loads = << >>
    /\ exp = IdleExport
    /\ md = [pc |-> "idle", sourceLang |-> "en", image |-> Null, units |-> << >>]
    /\ currentTranslationsIndex = -1
    /\ pendingTrans = << >>
    /\ lastSaved = [view |-> View(FirstState), trip |-> "none", expect |-> View(FirstState)]

\* the page as shipped has the duplicate dialog element
Init == InitPage /\ dup = ClosedDialog(TRUE)

\* ------------------------------------------------------------ unit upload
\* handleFiles: a FileReader, then an Image decode, run for the chosen file
handleFiles(f) ==
    /\ Len(pendingFiles) < MaxPending
    /\ pendingFiles' = Append(pendingFiles, f)
    /\ UNCHANGED <<state, db, store, currentProjectId, projects, canvas, side, sideClick,
                   slide, phoneModelLoaded, threeDefined, call, modal, dup, loads, exp, md,
                   currentTranslationsIndex, pendingTrans, lastSaved>>

\* handleFiles without the copies: the unit holds the defaults' own objects
NewUnitAliased(st, uid, img, name) ==
    [uid |-> uid, image |-> img, name |-> name,
     background |-> st.defaults.background,
     screenshot |-> st.defaults.screenshot,
     text |-> st.defaults.text]

\* The unit handleFiles pushes: JSON copies of the three defaults objects
NewUnit(st, uid, img, name) ==
    [uid |-> uid, image |-> img, name |-> name,
     background |-> JsonCopyBackground(st.defaults.background, uid),
     screenshot |-> JsonCopyScreenshot(st.defaults.screenshot, uid),
     text |-> JsonCopyText(st.defaults.text, uid)]

PushUnit(st, u) ==
    LET pushed == [st EXCEPT !.screenshots = Append(@, u)]
    IN IF Len(pushed.screenshots) = 1 THEN [pushed EXCEPT !.selectedIndex = 0] ELSE pushed

\* img.onload of handleFiles for the k-th pending file
ImgOnload(k) ==
    /\ k \in 1..Len(pendingFiles)
    /\ NumUnits(state) < MaxUnits
    /\ pendingFiles' = RemoveAt(pendingFiles, k)
    /\ UpdateCanvas(PushUnit(state, NewUnit(state, FreshUid, pendingFiles[k], pendingFiles[k])))
    /\ UNCHANGED <<db, currentProjectId, slide, phoneModelLoaded, threeDefined, call, modal, dup, loads,
                   exp, md, currentTranslationsIndex, pendingTrans>>

\* --------------------------------------------------------- the unit list
\* Items of the list are built by updateScreenshotList, one per unit
ListIndices == {k - 1 : k \in {j \in 1..Len(state.screenshots) : IsUnit(state.screenshots[j])}}

UnitAt(st, index) ==
    IF index + 1 \in 1..Len(st.screenshots) THEN st.screenshots[index + 1] ELSE Undefined

\* transferStyle without the two lines that restore the target's text content
transferStyleWithContent(st, sourceIndex, targetIndex) ==
    LET source == IF sourceIndex + 1 \in 1..Len(st.screenshots)
                  THEN st.screenshots[sourceIndex + 1] ELSE Undefined
        target == IF targetIndex + 1 \in 1..Len(st.screenshots)
                  THEN st.screenshots[targetIndex + 1] ELSE Undefined
        background == JsonCopyBackground(source.background, target.uid)
    IN IF ~IsUnit(source) \/ ~IsUnit(target) THEN [st EXCEPT !.transferTarget = -1]
       ELSE [st EXCEPT
               !.screenshots[targetIndex + 1] =
                   [@ EXCEPT !.background =
                                 IF source.background.image # Null
                                 THEN [background EXCEPT !.image = source.background.image]
                                 ELSE background,
                             !.screenshot = JsonCopyScreenshot(source.screenshot, target.uid),
                             !.text = JsonCopyText(source.text, target.uid)],
               !.transferTarget = -1]

transferStyle(st, sourceIndex, targetIndex) ==
    LET source == UnitAt(st, sourceIndex)
        target == UnitAt(st, targetIndex)
        background == JsonCopyBackground(source.background, target.uid)
        text == JsonCopyText(source.text, target.uid)
    IN IF ~IsUnit(source) \/ ~IsUnit(target) THEN [st EXCEPT !.transferTarget = -1]
       ELSE [st EXCEPT
               !.screenshots[targetIndex + 1] =
                   [@ EXCEPT !.background =
                                 IF source.background.image # Null
                                 THEN [background EXCEPT !.image = source.background.image]
                                 ELSE background,
                             !.screenshot = JsonCopyScreenshot(source.screenshot, target.uid),
                             !.text = [text EXCEPT !.headlines = target.text.headlines,
                                                   !.subheadlines = target.text.subheadlines]],
               !.transferTarget = -1]

\* click on a list item: a style transfer in transfer mode, else a selection
ItemClick(index) ==
    /\ index \in ListIndices
    /\ IF state.transferTarget # -1
       THEN IF index # state.transferTarget
            THEN IF IsUnit(UnitAt(state, state.transferTarget))
                 THEN UpdateCanvas(transferStyle(state, index, state.transferTarget))
                 ELSE /\ state' = transferStyle(state, index, state.transferTarget)
                      /\ UNCHANGED <<store, projects, lastSaved, canvas, side, sideClick>>
            ELSE UNCHANGED <<state, store, projects, lastSaved, canvas, side, sideClick>>
       ELSE UpdateCanvas([state EXCEPT !.selectedIndex = index])
    /\ UNCHANGED <<db, currentProjectId, slide, phoneModelLoaded, threeDefined, call, modal, dup,
                   pendingFiles, loads, exp, md, currentTranslationsIndex, pendingTrans>>

\* the "transfer style" menu entry of a list item
TransferButton(index) ==
    /\ index \in ListIndices
    /\ state' = [state EXCEPT !.transferTarget = index]
    /\ UNCHANGED <<db, store, currentProjectId, projects, canvas, side, sideClick, slide,
                   phoneModelLoaded, threeDefined, call, modal, dup, pendingFiles, loads, exp, md,
                   currentTranslationsIndex, pendingTrans, lastSaved>>

\* the delete menu entry of a list item
DeleteAt(st, index) ==
    LET spliced == [st EXCEPT !.screenshots = RemoveAt(@, index + 1)]
    IN IF spliced.selectedIndex >= Len(spliced.screenshots)
       THEN [spliced EXCEPT !.selectedIndex =
                IF Len(spliced.screenshots) - 1 > 0 THEN Len(spliced.screenshots) - 1 ELSE 0]
       ELSE spliced

DeleteButton(index) ==
    /\ index \in ListIndices
    /\ UpdateCanvas(DeleteAt(state, index))
    /\ UNCHANGED <<db, currentProjectId, slide, phoneModelLoaded, threeDefined, call, modal, dup,
                   pendingFiles, loads, exp, md, currentTranslationsIndex, pendingTrans>>

\* ------------------------------------------------------- settings handlers
NoiseToggle(noiseEnabled) ==
    /\ UpdateCanvas(setBackground(state, <<"noise">>, noiseEnabled))
    /\ UNCHANGED <<db, currentProjectId, slide, phoneModelLoaded, threeDefined, call, modal, dup,
                   pendingFiles, loads, exp, md, currentTranslationsIndex, pendingTrans>>

\* img.onload of the background image upload
BgImageOnload(img) ==
    /\ UpdateCanvas(setBackground(state, <<"image">>, img))
    /\ UNCHANGED <<db, currentProjectId, slide, phoneModelLoaded, threeDefined, call, modal, dup,
                   pendingFiles, loads, exp, md, currentTranslationsIndex, pendingTrans>>

\* a TypeError in the setter ends the handler before updateCanvas()
ShadowOpacityInput(value) ==
    /\ IF SetThrows(state, "screenshot", <<"shadow", "opacity">>)
       THEN UNCHANGED <<state, store, projects, lastSaved, canvas, side, sideClick>>
       ELSE UpdateCanvas(setScreenshotSetting(state, <<"shadow", "opacity">>, value))
    /\ UNCHANGED <<db, currentProjectId, slide, phoneModelLoaded, threeDefined, call, modal, dup,
                   pendingFiles, loads, exp, md, currentTranslationsIndex, pendingTrans>>

HeadlineSizeInput(value) ==
    /\ UpdateCanvas(setTextSetting(state, "headlineSize", IF value = 0 THEN 100 ELSE value))
    /\ UNCHANGED <<db, currentProjectId, slide, phoneModelLoaded, threeDefined, call, modal, dup,
                   pendingFiles, loads, exp, md, currentTranslationsIndex, pendingTrans>>

\* headline-text input: writes the headlines map of getText() directly,
\* which is the defaults' map when no unit is selected
HeadlineInput(value) ==
    LET text == getText(state) IN
    /\ UpdateCanvas(MapHolders(state, LAMBDA c :
            IF c.text.headlines.id = text.headlines.id
            THEN [c EXCEPT !.text.headlines.map = Put(@, text.currentHeadlineLang, value)]
            ELSE c))
    /\ UNCHANGED <<db, currentProjectId, slide, phoneModelLoaded, threeDefined, call, modal, dup,
                   pendingFiles, loads, exp, md, currentTranslationsIndex, pendingTrans>>

\* a preset swatch: the angle, then a newly built stops array
PresetStops == << [color |-> "#ff6b6b", position |-> 0], [color |-> "#feca57", position |-> 100] >>

NewStops(st, items) ==
    [id |-> getCurrentScreenshot(st).uid, items |-> items]

GradientPreset(angle) ==
    LET a == setBackground(state, <<"gradient", "angle">>, angle)
    IN
    /\ IF SetThrows(state, "background", <<"gradient", "angle">>)
       THEN UNCHANGED <<state, store, projects, lastSaved, canvas, side, sideClick>>
       ELSE UpdateCanvas(setBackground(a, <<"gradient", "stops">>, NewStops(a, PresetStops)))
    /\ UNCHANGED <<db, currentProjectId, slide, phoneModelLoaded, threeDefined, call, modal, dup,
                   pendingFiles, loads, exp, md, currentTranslationsIndex, pendingTrans>>

Min(a, b) == IF a < b THEN a ELSE b

\* add-gradient-stop: pushes onto the stops array of getBackground()
AddGradientStop ==
    LET stops == getBackground(state).gradient.stops
        lastStop == stops.items[Len(stops.items)]
    IN
    /\ Len(stops.items) < MaxStops
    /\ UpdateCanvas(WriteStops(state, stops.id, LAMBDA o :
            [o EXCEPT !.items = Append(@, [color |-> lastStop.color,
                                           position |-> Min(lastStop.position + 20, 100)])]))
    /\ UNCHANGED <<db, currentProjectId, slide, phoneModelLoaded, threeDefined, call, modal, dup,
                   pendingFiles, loads, exp, md, currentTranslationsIndex, pendingTrans>>

\* the colour input of the stop at `index` (the inputs are rebuilt by
\* updateGradientStopsUI from the current stops)
StopColorInput(index, value) ==
    LET stops == getBackground(state).gradient.stops IN
    /\ index + 1 \in 1..Len(stops.items)
    /\ UpdateCanvas(WriteStops(state, stops.id, LAMBDA o :
            [o EXCEPT !.items[index + 1].color = value]))
    /\ UNCHANGED <<db, currentProjectId, slide, phoneModelLoaded, threeDefined, call, modal, dup,
                   pendingFiles, loads, exp, md, currentTranslationsIndex, pendingTrans>>

\* the delete button of a stop, offered for index > 1
StopDelete(index) ==
    LET stops == getBackground(state).gradient.stops IN
    /\ index > 1
    /\ index + 1 \in 1..Len(stops.items)
    /\ UpdateCanvas(WriteStops(state, stops.id, LAMBDA o :
            [o EXCEPT !.items = RemoveAt(@, index + 1)]))
    /\ UNCHANGED <<db, currentProjectId, slide, phoneModelLoaded, threeDefined, call, modal, dup,
                   pendingFiles, loads, exp, md, currentTranslationsIndex, pendingTrans>>

\* ------------------------------------------------------- magical designer
\* generateMagicalDesigns, from the collection of the images on.  The
\* analysis answers with a copy for every unit index, one text colour and
\* primary / accent colours; backgroundImageVal is a generated image or null.
IdleDesigner == [pc |-> "idle", sourceLang |-> "en", image |-> Null, units |-> << >>]

\* "Collect images": the units whose image goes into the request, in the
\* order of state.screenshots; md.units remembers them by identity
CollectImages(st) ==
    LET units == SelectSeq(st.screenshots, LAMBDA u : IsUnit(u))
    IN [k \in 1..Len(units) |-> units[k].uid]

\* The copy the analysis writes for the image of the unit `uid`
HeadlineFor(uid) ==
    IF uid = 1 THEN "Headline 1" ELSE IF uid = 2 THEN "Headline 2"
    ELSE IF uid = 3 THEN "Headline 3" ELSE "Headline 4"

SubheadlineFor(uid) ==
    IF uid = 1 THEN "Subheadline 1" ELSE IF uid = 2 THEN "Subheadline 2"
    ELSE IF uid = 3 THEN "Subheadline 3" ELSE "Subheadline 4"

MdStart(sourceLang) ==
    /\ md.pc = "idle"
    /\ Includes(state.projectLanguages, sourceLang)
    /\ \E k \in 1..Len(state.screenshots) : IsUnit(state.screenshots[k])
    /\ md' = [pc |-> "analysis", sourceLang |-> sourceLang, image |-> Null,
              units |-> CollectImages(state)]
    /\ UNCHANGED <<state, db, store, currentProjectId, projects, canvas, side, sideClick,
                   slide, phoneModelLoaded, threeDefined, call, modal, dup, pendingFiles, loads, exp,
                   currentTranslationsIndex, pendingTrans, lastSaved>>

\* 4a: designData.copy has an entry for each image of the request, under its
\* index in the request; the entry i goes into the headlines / subheadlines
\* maps of state.screenshots[i], and an index without an entry is passed
\* over; the loop reads ss.text of a hole and throws there, which ends the run
RECURSIVE ApplyCopy(_, _, _)
ApplyCopy(st, i, lang) ==
    IF i >= Len(st.screenshots) \/ ~IsUnit(st.screenshots[i + 1]) THEN st
    ELSE IF i >= Len(md.units) THEN ApplyCopy(st, i + 1, lang)
    ELSE LET ss == st.screenshots[i + 1]
             h == WriteSub(st, "text", "headlines", ss.text.headlines.id,
                           LAMBDA o : [o EXCEPT !.map = Put(@, lang, HeadlineFor(md.units[i + 1]))])
             sh == WriteSub(h, "text", "subheadlines", ss.text.subheadlines.id,
                            LAMBDA o : [o EXCEPT !.map =
                                           Put(@, lang, SubheadlineFor(md.units[i + 1]))])
         IN ApplyCopy(sh, i + 1, lang)

CopyThrows(st) == \E k \in 1..Len(st.screenshots) : ~IsUnit(st.screenshots[k])

\* 4c: newBackgroundSettings, built from a JSON copy of the defaults
newBackgroundSettings(st, image) ==
    LET base == [JsonCopyBackground(st.defaults.background, 0) EXCEPT
                    !.type = IF image # Null THEN "image" ELSE "gradient",
                    !.overlayColor = "#101020", !.overlayOpacity = 30]
    IN IF image # Null THEN [base EXCEPT !.image = image, !.imageFit = "cover"]
       ELSE [base EXCEPT !.gradient =
                [id |-> 0, angle |-> 135,
                 stops |-> [id |-> 0, items |-> << [color |-> "#3366ff", position |-> 0],
                                                   [color |-> "#ff6633", position |-> 100] >>]]]

PutAll(o, r) == [k \in DOMAIN o \cup DOMAIN r |-> IF k \in DOMAIN r THEN r[k] ELSE o[k]]

\* the body of state.screenshots.forEach(ss => ...) for the unit at index i
ApplyDesignAt(st, i, settings) ==
    LET ss == st.screenshots[i + 1]
        bgCopy == JsonCopyBackground(settings, ss.uid)
        a == WriteTop(st, "text", ss.text.id, LAMBDA o : PutAll(o,
                 [headlineColor |-> "#fafafa", subheadlineColor |-> "#fafafa",
                  headlineFont |-> "Inter", subheadlineFont |-> "Inter"]))
        b == [a EXCEPT !.screenshots[i + 1].background =
                 IF settings.image # Null THEN [bgCopy EXCEPT !.image = settings.image]
                 ELSE bgCopy]
        c == WriteTop(b, "screenshot", ss.screenshot.id, LAMBDA o : PutAll(o,
                 [use3D |-> TRUE, scale |-> 75, x |-> 50, y |-> 65,
                  rotation3D |-> [id |-> ss.uid, x |-> 0, y |-> 15, z |-> 0],
                  shadow |-> [id |-> ss.uid, enabled |-> TRUE, color |-> "#000000",
                              blur |-> 50, opacity |-> 40, x |-> 0, y |-> 30]]))
    IN WriteTop(c, "text", ss.text.id, LAMBDA o : PutAll(o,
           [position |-> "top", offsetY |-> 12, headlineSize |-> 80,
            headlineWeight |-> "900", headlineCase |-> "uppercase",
            subheadlineEnabled |-> TRUE, subheadlineSize |-> 40,
            subheadlineWeight |-> "500", subheadlineOpacity |-> 90]))

RECURSIVE ApplyDesign(_, _, _)
ApplyDesign(st, i, settings) ==
    IF i >= Len(st.screenshots) THEN st
    ELSE ApplyDesign(IF IsUnit(st.screenshots[i + 1]) THEN ApplyDesignAt(st, i, settings)
                     ELSE st, i + 1, settings)

\* The analysis (and the optional image generation) has answered: step 4a,
\* then either the await of the background image decode or step 4c at once
MdApplyCopy(image) ==
    LET copied == ApplyCopy(state, 0, md.sourceLang) IN
    /\ md.pc = "analysis"
    /\ IF CopyThrows(state)
       THEN /\ state' = copied
            /\ md' = IdleDesigner
            /\ lastSaved' = [lastSaved EXCEPT !.trip = "none", !.expect = lastSaved.view]
            /\ UNCHANGED <<store, projects, canvas, side, sideClick>>
       ELSE IF image # Null
       THEN /\ state' = copied
            /\ md' = [md EXCEPT !.pc = "decode", !.image = image]
            /\ lastSaved' = [lastSaved EXCEPT !.trip = "none", !.expect = lastSaved.view]
            /\ UNCHANGED <<store, projects, canvas, side, sideClick>>
       ELSE /\ UpdateCanvas(ApplyDesign(copied, 0, newBackgroundSettings(copied, Null)))
            /\ md' = IdleDesigner
    /\ UNCHANGED <<db, currentProjectId, slide, phoneModelLoaded, threeDefined, call, modal, dup,
                   pendingFiles, loads, exp, currentTranslationsIndex, pendingTrans>>

\* bgImg.onload: step 4c with the decoded background image
MdApplyDesign ==
    /\ md.pc = "decode"
    /\ UpdateCanvas(ApplyDesign(state, 0, newBackgroundSettings(state, md.image)))
    /\ md' = IdleDesigner
    /\ UNCHANGED <<db, currentProjectId, slide, phoneModelLoaded, threeDefined, call, modal, dup,
                   pendingFiles, loads, exp, currentTranslationsIndex, pendingTrans>>

\* ------------------------------------------------------ reload and loading
\* The page is reloaded: every script variable is back at its initial value,
\* initSync has rendered the initial state (db is null, nothing is saved) and
\* init() waits for openDatabase
Reload ==
    /\ state' = InitialState
    /\ db' = "null"
    /\ loads' = <<[pc |-> "open", pid |-> currentProjectId, items |-> << >>,
                   todo |-> {}, loadedCount |-> 0]>>
    /\ canvas' = MainCanvas(InitialState, FALSE)
    /\ side' = updateSidePreviews(InitialState, FALSE, FALSE, InitialSide)
    /\ sideClick' = [left |-> -1, right |-> -1]
    /\ slide' = IdleSlide
    /\ phoneModelLoaded' = FALSE
    /\ pendingFiles' = << >>
    /\ exp' = IdleExport
    /\ md' = IdleDesigner
    /\ currentTranslationsIndex' = -1
    /\ pendingTrans' = << >>
    /\ lastSaved' = [lastSaved EXCEPT !.trip = "loading", !.expect = lastSaved.view]
    /\ UNCHANGED <<store, currentProjectId, projects, threeDefined, call, modal, dup>>

\* indexedDB.open succeeds; loadProjectsMeta, then loadState issues its request
OpenDatabaseSuccess(k) ==
    /\ k \in 1..Len(loads)
    /\ loads[k].pc = "open"
    /\ db' = "open"
    /\ loads' = [loads EXCEPT ![k].pc = "request"]
    /\ UNCHANGED <<state, store, currentProjectId, projects, canvas, side, sideClick,
                   slide, phoneModelLoaded, threeDefined, call, modal, dup, pendingFiles, exp, md,
                   currentTranslationsIndex, pendingTrans, lastSaved>>

\* request.onsuccess of loadState, without the image decodes it starts
LoadParsed(st, parsed) ==
    [st EXCEPT !.screenshots = << >>,
               !.selectedIndex = parsed.selectedIndex,
               !.outputDevice = parsed.outputDevice,
               !.customWidth = IF parsed.customWidth = 0 THEN 1320 ELSE parsed.customWidth,
               !.customHeight = IF parsed.customHeight = 0 THEN 2868 ELSE parsed.customHeight,
               !.currentLanguage = parsed.currentLanguage,
               !.projectLanguages = parsed.projectLanguages,
               !.defaults = [background |-> JsonCopyBackground(parsed.defaults.background, 0),
                             screenshot |-> JsonCopyScreenshot(parsed.defaults.screenshot, 0),
                             text |-> JsonCopyText(parsed.defaults.text, 0)]]

StoredIndices(parsed) ==
    {k - 1 : k \in {j \in 1..Len(parsed.screenshots) : IsUnit(parsed.screenshots[j])}}

\* request.onsuccess, and init() continuing after `await loadState()` with
\* updateCanvas() before any image has been decoded
LoadSuccess(k) ==
    LET found == loads[k].pid \in DOMAIN store
        parsed == store[loads[k].pid]
        new == IF found THEN LoadParsed(state, parsed) ELSE resetStateToDefaults(state)
        decoding == found /\ Len(parsed.screenshots) > 0
    IN
    /\ k \in 1..Len(loads)
    /\ loads[k].pc = "request"
    /\ loads' = IF decoding
                THEN [loads EXCEPT ![k] = [@ EXCEPT !.pc = "decoding",
                                                    !.items = parsed.screenshots,
                                                    !.todo = StoredIndices(parsed)]]
                ELSE RemoveAt(loads, k)
    /\ UpdateCanvasFrom(new, FALSE, side,
                        IF decoding \/ lastSaved.trip # "loading" THEN lastSaved.trip ELSE "done")
    /\ UNCHANGED <<db, currentProjectId, slide, phoneModelLoaded, threeDefined, call, modal, dup,
                   pendingFiles, exp, md, currentTranslationsIndex, pendingTrans>>

\* state.screenshots[index] = ... on a possibly shorter array leaves holes
SetIndex(seq, index, u) ==
    [j \in 1..(IF index + 1 > Len(seq) THEN index + 1 ELSE Len(seq)) |->
        IF j = index + 1 THEN u ELSE IF j <= Len(seq) THEN seq[j] ELSE Undefined]

\* The unit img.onload of loadState builds from the stored entry; the stored
\* settings objects are those of the structured clone that was read
LoadedUnit(s, uid) ==
    [uid |-> uid, image |-> s.src, name |-> s.name,
     background |-> [JsonCopyBackground(s.background, uid) EXCEPT !.image = s.background.image],
     screenshot |-> JsonCopyScreenshot(s.screenshot, uid),
     text |-> JsonCopyText(s.text, uid)]

\* img.onload for the stored entry at `index`; the last one to finish
\* refreshes the list and calls updateCanvas()
LoadImgOnload(k, index) ==
    LET load == loads[k]
        new == [state EXCEPT !.screenshots =
                   SetIndex(@, index, LoadedUnit(load.items[index + 1], FreshUid))]
        last == load.loadedCount + 1 = Len(load.items)
    IN
    /\ k \in 1..Len(loads)
    /\ load.pc = "decoding"
    /\ index \in load.todo
    /\ loads' = IF load.todo = {index} THEN RemoveAt(loads, k)
                ELSE [loads EXCEPT ![k].todo = @ \ {index}, ![k].loadedCount = @ + 1]
    /\ IF last
       THEN UpdateCanvasFrom(new, FALSE, side,
                             IF lastSaved.trip = "loading" THEN "done" ELSE lastSaved.trip)
       ELSE /\ state' = new
            /\ UNCHANGED <<store, projects, lastSaved, canvas, side, sideClick>>
    /\ UNCHANGED <<db, currentProjectId, slide, phoneModelLoaded, threeDefined, call, modal, dup,
                   pendingFiles, exp, md, currentTranslationsIndex, pendingTrans>>

\* ------------------------------------------------- 2D / 3D and output size
\* a button of the device type selector (2D or 3D)
Use3DButton(use3D) ==
    /\ UpdateCanvas(setScreenshotSetting(state, <<"use3D">>, use3D))
    /\ UNCHANGED <<db, currentProjectId, slide, phoneModelLoaded, threeDefined, call, modal, dup,
                   pendingFiles, loads, exp, md, currentTranslationsIndex, pendingTrans>>

NoiseIntensityInput(value) ==
    /\ UpdateCanvas(setBackground(state, <<"noiseIntensity">>, value))
    /\ UNCHANGED <<db, currentProjectId, slide, phoneModelLoaded, threeDefined, call, modal, dup,
                   pendingFiles, loads, exp, md, currentTranslationsIndex, pendingTrans>>

\* an option of the output size menu
OutputDeviceOption(device) ==
    /\ UpdateCanvas([state EXCEPT !.outputDevice = device])
    /\ UNCHANGED <<db, currentProjectId, slide, phoneModelLoaded, threeDefined, call, modal, dup,
                   pendingFiles, loads, exp, md, currentTranslationsIndex, pendingTrans>>

\* The 3D backend, when its script is on the page, finishes loading a phone model
PhoneModelLoaded ==
    /\ threeDefined /\ ~phoneModelLoaded
    /\ phoneModelLoaded' = TRUE
    /\ UNCHANGED <<state, db, store, currentProjectId, projects, canvas, side, sideClick,
                   slide, threeDefined, call, modal, dup, pendingFiles, loads, exp, md,
                   currentTranslationsIndex, pendingTrans, lastSaved>>

\* ------------------------------------------------------- slide transition
\* click on the left or right side preview: slideToScreenshot starts
SidePreviewClick(which) ==
    /\ ~side[which].hidden
    /\ sideClick[which] # -1
    /\ slide.pc = "idle"
    /\ slide' = [pc |-> "animation", newIndex |-> sideClick[which],
                 dims |-> getCanvasDimensions(state)]
    /\ UNCHANGED <<state, db, store, currentProjectId, projects, canvas, side, sideClick,
                   phoneModelLoaded, threeDefined, call, modal, dup, pendingFiles, loads, exp, md,
                   currentTranslationsIndex, pendingTrans, lastSaved>>

\* prerenderToTemp and the copy onto the target canvas; nothing is copied
\* for an index outside the array
Prerendered(st, index, dims, ready, old) ==
    IF index < 0 \/ index >= Len(st.screenshots) THEN old
    ELSE [old EXCEPT !.content = renderScreenshotToCanvas(st, index, dims, ready, Blank)]

\* the animation and the model loads are done: selection, copies, updateCanvas
SlideThen ==
    LET new == [state EXCEPT !.selectedIndex = slide.newIndex]
        copied == [side EXCEPT
                     !.left = Prerendered(state, slide.newIndex - 1, slide.dims, Ready, @),
                     !.right = Prerendered(state, slide.newIndex + 1, slide.dims, Ready, @)]
    IN
    /\ slide.pc = "animation"
    /\ slide' = [slide EXCEPT !.pc = "frames"]
    /\ UpdateCanvasFrom(new, TRUE, copied, "none")
    /\ UNCHANGED <<db, currentProjectId, phoneModelLoaded, threeDefined, call, modal, dup,
                   pendingFiles, loads, exp, md, currentTranslationsIndex, pendingTrans>>

\* the second animation frame: isSliding = false
SlideEnd ==
    /\ slide.pc = "frames"
    /\ slide' = [slide EXCEPT !.pc = "idle"]
    /\ UNCHANGED <<state, db, store, currentProjectId, projects, canvas, side, sideClick,
                   phoneModelLoaded, threeDefined, call, modal, dup, pendingFiles, loads, exp, md,
                   currentTranslationsIndex, pendingTrans, lastSaved>>

\* ------------------------------------------------------------ batch export
\* The position (1-based, 0 for none) of the unit with the given uid
PositionOf(st, uid) ==
    IF \E k \in 1..Len(st.screenshots) : st.screenshots[k].uid = uid /\ uid # 0
    THEN CHOOSE k \in 1..Len(st.screenshots) : st.screenshots[k].uid = uid
    ELSE 0

\* click on "export all" with at least one unit: the first unit is selected
\* and rendered, then the export waits 100 ms.  exp.units remembers which
\* units the project had, in order, when the export started.
ExportAllClick ==
    /\ exp.pc = "idle"
    /\ Len(state.screenshots) > 0
    /\ exp' = [pc |-> "wait", i |-> 0, originalIndex |-> state.selectedIndex,
               units |-> [k \in 1..Len(state.screenshots) |-> state.screenshots[k].uid],
               entries |-> << >>]
    /\ UpdateCanvas([state EXCEPT !.selectedIndex = 0])
    /\ UNCHANGED <<db, currentProjectId, slide, phoneModelLoaded, threeDefined, call, modal, dup,
                   pendingFiles, loads, md, currentTranslationsIndex, pendingTrans>>

\* The archive entry canvas.toDataURL gives at loop index i: its name, and
\* whether the canvas holds the render of the unit that was at position i
\* when the export started
ArchiveEntry(i) ==
    LET pos == IF i + 1 \in 1..Len(exp.units) THEN PositionOf(state, exp.units[i + 1]) ELSE 0
    IN [index |-> i,
        own |-> pos # 0 /\ canvas = MainCanvas([state EXCEPT !.selectedIndex = pos - 1], Ready)]

\* the 100 ms timer fires: the canvas is serialized into the archive, then
\* either the next unit is selected and rendered, or the loop ends and the
\* selection is set back
ExportTimer ==
    LET entries == Append(exp.entries, ArchiveEntry(exp.i))
        next == exp.i + 1
    IN
    /\ exp.pc = "wait"
    /\ IF next < Len(state.screenshots)
       THEN /\ exp' = [exp EXCEPT !.i = next, !.entries = entries]
            /\ UpdateCanvas([state EXCEPT !.selectedIndex = next])
       ELSE /\ exp' = [exp EXCEPT !.pc = "zip", !.i = next, !.entries = entries]
            /\ UpdateCanvas([state EXCEPT !.selectedIndex = exp.originalIndex])
    /\ UNCHANGED <<db, currentProjectId, slide, phoneModelLoaded, threeDefined, call, modal, dup,
                   pendingFiles, loads, md, currentTranslationsIndex, pendingTrans>>

\* zip.generateAsync resolves and the archive is downloaded
ExportDownload ==
    /\ exp.pc = "zip"
    /\ exp' = IdleExport
    /\ UNCHANGED <<state, db, store, currentProjectId, projects, canvas, side, sideClick,
                   slide, phoneModelLoaded, threeDefined, call, modal, dup, pendingFiles, loads, md,
                   currentTranslationsIndex, pendingTrans, lastSaved>>

\* ================================================= settings isolation (C1)
\* Unit creation (upload and loadState), the three setters, a gradient-stop
\* edit, style transfer and the magical designer.  The page is used once its
\* load has finished; the designer is run without a generated background.
UserSettings ==
    \/ handleFiles("a.png")
    \/ \E k \in 1..MaxPending : ImgOnload(k)
    \/ \E index \in 0..MaxUnits : ItemClick(index)
    \/ TransferButton(0)
    \/ NoiseToggle(TRUE)
    \/ ShadowOpacityInput(40)
    \/ HeadlineSizeInput(80)
    \/ AddGradientStop
    \/ MdStart("en")
    \/ MdApplyCopy(Null)

NextSettings ==
    \/ loads = << >> /\ UserSettings
    \/ Reload
    \/ \E k \in 1..MaxLoads : OpenDatabaseSuccess(k)
    \/ \E k \in 1..MaxLoads : LoadSuccess(k)
    \/ \E k \in 1..MaxLoads, index \in 0..MaxUnits : LoadImgOnload(k, index)

InitSettings == Init /\ ~threeDefined

SpecSettings == InitSettings /\ [][NextSettings]_vars

\* The mutable settings objects a unit or state.defaults holds, by kind and identity
SettingsObjects(c) ==
    {<<"background", c.background.id>>, <<"stops", c.background.gradient.stops.id>>,
     <<"screenshot", c.screenshot.id>>, <<"shadow", c.screenshot.shadow.id>>,
     <<"frame", c.screenshot.frame.id>>, <<"text", c.text.id>>,
     <<"headlines", c.text.headlines.id>>, <<"subheadlines", c.text.subheadlines.id>>}
    \cup (IF Has(c.screenshot, "rotation3D")
          THEN {<<"rotation3D", c.screenshot.rotation3D.id>>} ELSE {})

UnitPositions(st) == {k \in 1..Len(st.screenshots) : IsUnit(st.screenshots[k])}

NoSharedSettings ==
    /\ \A k1, k2 \in UnitPositions(state) :
           k1 # k2 => SettingsObjects(state.screenshots[k1])
                         \cap SettingsObjects(state.screenshots[k2]) = {}
    /\ \A k \in UnitPositions(state) :
           SettingsObjects(state.screenshots[k]) \cap SettingsObjects(state.defaults) = {}

\* The holders (unit positions, 0 for state.defaults) whose settings a step changed
ChangedHolders ==
    {k \in UnitPositions(state) : state'.screenshots[k] # state.screenshots[k]}
    \cup (IF state'.defaults # state.defaults THEN {0} ELSE {})

SameUnits ==
    /\ Len(state'.screenshots) = Len(state.screenshots)
    /\ \A k \in 1..Len(state.screenshots) : state'.screenshots[k].uid = state.screenshots[k].uid

\* C1: no two units hold the same mutable settings object (background, stops
\* array, screenshot, shadow, frame, rotation3D, text, headlines, subheadlines)
\* and no unit holds one of state.defaults; and every step other than the
\* designer's, which restyles all units, that keeps the units in place
\* changes the settings of at most one holder (one unit, or the defaults).
SettingsIsolation ==
    /\ []NoSharedSettings
    /\ [][(SameUnits /\ md' = md) => Cardinality(ChangedHolders) <= 1]_vars

\* Two units, of which one has been given noise, a shadow opacity and a
\* third gradient stop that the other one and the defaults do not have
SettingsIsolationWitness ==
    \E k1, k2 \in UnitPositions(state) :
        /\ state.screenshots[k1].background.noise
        /\ state.screenshots[k1].screenshot.shadow.opacity = 40
        /\ Len(state.screenshots[k1].background.gradient.stops.items) = 3
        /\ ~state.screenshots[k2].background.noise
        /\ state.screenshots[k2].screenshot.shadow.opacity = DefaultShadowOpacity
        /\ Len(state.screenshots[k2].background.gradient.stops.items) = 2
        /\ ~state.defaults.background.noise
        /\ Len(state.defaults.background.gradient.stops.items) = 2

\* ===================================================== rendering (C3, C4, C6)
\* Uploads, selection, slides, the noise and 2D/3D settings, the output size
\* and the 3D backend becoming ready.
NextRender ==
    \/ handleFiles("a.png")
    \/ \E k \in 1..MaxPending : ImgOnload(k)
    \/ \E index \in 0..MaxUnits : ItemClick(index)
    \/ NoiseToggle(TRUE)
    \/ NoiseIntensityInput(20)
    \/ \E use3D \in BOOLEAN : Use3DButton(use3D)
    \/ OutputDeviceOption("web-og")
    \/ PhoneModelLoaded
    \/ \E which \in {"left", "right"} : SidePreviewClick(which)
    \/ SlideThen
    \/ SlideEnd

SpecRender == Init /\ [][NextRender]_vars

Ops(layers) == [k \in 1..Len(layers) |-> layers[k].op]
Count(layers, op) == Cardinality({k \in 1..Len(layers) : layers[k].op = op})
IsImageOp(op) == op \in {"image2D", "image3D"}

\* background first; noise exactly when the background drawn has its noise
\* flag set, and then second; an image layer only after those; text last
LayersOrdered(layers) ==
    /\ Len(layers) >= 2
    /\ layers[1].op = "background" /\ Count(layers, "background") = 1
    /\ layers[Len(layers)].op = "text" /\ Count(layers, "text") = 1
    /\ IF layers[1].bg.noise
       THEN layers[2].op = "noise" /\ Count(layers, "noise") = 1
       ELSE Count(layers, "noise") = 0
    /\ \A k \in 1..Len(layers) :
           IsImageOp(layers[k].op) =>
               /\ k = Len(layers) - 1
               /\ k = IF layers[1].bg.noise THEN 3 ELSE 2

\* The canvases that hold a render: the main canvas and the displayed side previews
Rendered ==
    {canvas} \cup {side[c].content : c \in {d \in DOMAIN side :
                        ~side[d].hidden /\ side[d].content \notin {Blank, Stale}}}

\* C3: every render, by updateCanvas on the main canvas and by
\* renderScreenshotToCanvas on a side preview, draws the background first,
\* the noise pass exactly when the noise flag of that background is set and
\* then right after the background, the image layer after those, the text last.
FixedLayerOrder == \A c \in Rendered : LayersOrdered(c.layers)

\* The main canvas and a side preview both hold background, noise, image, text
FixedLayerOrderWitness ==
    /\ Ops(canvas.layers) = <<"background", "noise", "image2D", "text">>
    /\ \E c \in {"left", "right"} :
           /\ ~side[c].hidden
           /\ Len(side[c].content.layers) = 4
           /\ side[c].content.layers[2].op = "noise"

\* The units with an image, by index
RenderableIndices ==
    {i \in 0..(Len(state.screenshots) - 1) :
        IsUnit(state.screenshots[i + 1]) /\ state.screenshots[i + 1].image # Null}

\* C4: for every unit, updateCanvas with the unit selected and
\* renderScreenshotToCanvas of the unit draw, for the same canvas size and
\* the same readiness of the 3D backend, the same layers with the same
\* parameters.
PreviewExportParity ==
    \A i \in RenderableIndices :
        renderScreenshotToCanvas(state, i, getCanvasDimensions(state), Ready, Blank)
            = MainCanvas([state EXCEPT !.selectedIndex = i], Ready)

DispatchOK(layers, use3D, ready) ==
    /\ (use3D /\ ready) => Count(layers, "image3D") = 1 /\ Count(layers, "image2D") = 0
    /\ ~use3D => Count(layers, "image2D") = 1 /\ Count(layers, "image3D") = 0
    /\ Count(layers, "image2D") + Count(layers, "image3D") <= 1

\* C6: a render of a unit whose use3D flag is set, with the 3D backend
\* defined and its phone model loaded, invokes the 3D renderer and not the 2D
\* screenshot path; a render of a unit whose use3D flag is not set invokes
\* the 2D path and not the 3D renderer; no render invokes both.
Dispatch2D3D ==
    /\ \A i \in RenderableIndices :
          LET use3D == use3DOf(state.screenshots[i + 1].screenshot) IN
          /\ DispatchOK(MainLayers([state EXCEPT !.selectedIndex = i], Ready), use3D, Ready)
          /\ DispatchOK(UnitLayers(state, i, Ready), use3D, Ready)
    /\ \A c \in Rendered : Count(c.layers, "image2D") + Count(c.layers, "image3D") <= 1

\* The selected unit is rendered in 3D on the main canvas while a side
\* preview shows a unit in 2D
Dispatch2D3DWitness ==
    /\ Ready
    /\ state.selectedIndex \in RenderableIndices
    /\ use3DOf(getScreenshotSettings(state))
    /\ Count(canvas.layers, "image3D") = 1
    /\ \E c \in {"left", "right"} :
           ~side[c].hidden /\ Count(side[c].content.layers, "image2D") = 1

\* ======================================================= export (C2, C5)
\* A batch export with the list, slide and settings events that can run
\* while it waits; the 3D backend is absent.
NextExport ==
    \/ handleFiles("a.png")
    \/ \E k \in 1..MaxPending : ImgOnload(k)
    \/ \E index \in 0..MaxUnits : ItemClick(index)
    \/ \E index \in 0..MaxUnits : DeleteButton(index)
    \/ NoiseToggle(TRUE)
    \/ \E which \in {"left", "right"} : SidePreviewClick(which)
    \/ SlideThen
    \/ SlideEnd
    \/ ExportAllClick
    \/ ExportTimer
    \/ ExportDownload

InitExport == Init /\ ~threeDefined

SpecExport == InitExport /\ [][NextExport]_vars

\* C2: a batch export of a project with N units produces N archive entries,
\* and the entry for position i is serialized from a canvas that holds the
\* render of unit i, whatever events run while the export waits.
BatchExportOwnUnits ==
    /\ \A k \in 1..Len(exp.entries) : exp.entries[k].own
    /\ exp.pc = "zip" => Len(exp.entries) = Len(exp.units)

\* C5: a step of exportAll changes nothing but the selection, and the step
\* that ends the loop leaves state.selectedIndex at the value it had when
\* the export started, designating an existing unit.
ExportRestoresSelection ==
    [][exp' # exp =>
          /\ [state' EXCEPT !.selectedIndex = state.selectedIndex] = state
          /\ (exp.pc = "wait" /\ exp'.pc = "zip") =>
                 /\ state'.selectedIndex = exp.originalIndex
                 /\ IsUnit(UnitAt(state', state'.selectedIndex))]_vars

\* ===================================================== persistence (C7)
\* Uploads, selection, a background setting and a background image, and page
\* reloads that load the stored project back; the page is used once its load
\* has finished, and the 3D backend is absent.
UserPersist ==
    \/ handleFiles("a.png")
    \/ \E k \in 1..MaxPending : ImgOnload(k)
    \/ \E index \in 0..MaxUnits : ItemClick(index)
    \/ NoiseToggle(TRUE)
    \/ BgImageOnload("bg.png")

NextPersist ==
    \/ loads = << >> /\ UserPersist
    \/ Reload
    \/ \E k \in 1..MaxLoads : OpenDatabaseSuccess(k)
    \/ \E k \in 1..MaxLoads : LoadSuccess(k)
    \/ \E k \in 1..MaxLoads, index \in 0..(MaxUnits - 1) : LoadImgOnload(k, index)

InitPersist == Init /\ ~threeDefined
SpecPersist == InitPersist /\ [][NextPersist]_vars

\* C7: when the project is loaded back after a saveState, and all image
\* decodes have completed, the project has the same units in the same order
\* with deep-equal background (its image included), screenshot settings and
\* text, and equal selectedIndex, output device, custom size, languages and
\* defaults as the project saveState was called on.
PersistenceRoundTrip == lastSaved.trip = "done" => View(state) = lastSaved.expect

\* ============================================== languages (C8, C9, C10)
\* array[0]; undefined (null here) on an empty array
First(s) == IF Len(s) = 0 THEN Null ELSE s[1]

\* The text objects of the units
UnitTextIds(st) ==
    {st.screenshots[k].text.id : k \in {j \in 1..Len(st.screenshots) : IsUnit(st.screenshots[j])}}

\* switchGlobalLanguage up to its UI updates and updateCanvas()
switchGlobalLanguage(st, lang) ==
    LET ids == UnitTextIds(st) IN
    MapHolders([st EXCEPT !.currentLanguage = lang],
               LAMBDA c : IF c.text.id \in ids
                          THEN [c EXCEPT !.text.currentHeadlineLang = lang,
                                         !.text.currentSubheadlineLang = lang]
                          ELSE c)

\* what addProjectLanguage does to a text object
AddToText(txt, lang) ==
    LET h == IF ~Includes(txt.headlineLanguages, lang)
             THEN [txt EXCEPT !.headlineLanguages = Append(@, lang),
                              !.headlines.map = Put(@, lang, "")]
             ELSE txt
    IN IF ~Includes(h.subheadlineLanguages, lang)
       THEN [h EXCEPT !.subheadlineLanguages = Append(@, lang),
                      !.subheadlines.map = Put(@, lang, "")]
       ELSE h

\* addProjectLanguage up to its UI updates and saveState()
addProjectLanguage(st, lang) ==
    IF Includes(st.projectLanguages, lang) THEN st
    ELSE MapHolders([st EXCEPT !.projectLanguages = Append(@, lang)],
                    LAMBDA c : [c EXCEPT !.text = AddToText(@, lang)])

\* removeProjectLanguage from the splice to the switch of the global language
RemoveSwitched(st, lang) ==
    LET spliced == [st EXCEPT !.projectLanguages = RemoveValue(@, lang)]
    IN IF st.currentLanguage = lang
       THEN switchGlobalLanguage(spliced, First(spliced.projectLanguages))
       ELSE spliced

\* removeProjectLanguage leaving currentHeadlineLang and currentSubheadlineLang alone
RemoveFromTextNoRepoint(txt, lang, first, repoint) ==
    LET h == IF Includes(txt.headlineLanguages, lang)
             THEN [txt EXCEPT !.headlineLanguages = RemoveValue(@, lang),
                              !.headlines.map = Del(@, lang)]
             ELSE txt
    IN IF Includes(h.subheadlineLanguages, lang)
       THEN [h EXCEPT !.subheadlineLanguages = RemoveValue(@, lang),
                      !.subheadlines.map = Del(@, lang)]
       ELSE h

\* what removeProjectLanguage does to a text object; only the units' text
\* objects are re-pointed
RemoveFromText(txt, lang, first, repoint) ==
    LET h == IF Includes(txt.headlineLanguages, lang)
             THEN [txt EXCEPT !.headlineLanguages = RemoveValue(@, lang),
                              !.headlines.map = Del(@, lang)]
             ELSE txt
        s == IF Includes(h.subheadlineLanguages, lang)
             THEN [h EXCEPT !.subheadlineLanguages = RemoveValue(@, lang),
                            !.subheadlines.map = Del(@, lang)]
             ELSE h
        ph == IF repoint /\ s.currentHeadlineLang = lang
              THEN [s EXCEPT !.currentHeadlineLang = first] ELSE s
    IN IF repoint /\ ph.currentSubheadlineLang = lang
       THEN [ph EXCEPT !.currentSubheadlineLang = first] ELSE ph

\* removeProjectLanguage without its first line
removeProjectLanguageUnguarded(st, lang) ==
    IF ~Includes(st.projectLanguages, lang) THEN st
    ELSE LET mid == RemoveSwitched(st, lang)
             ids == UnitTextIds(mid)
         IN MapHolders(mid, LAMBDA c :
                [c EXCEPT !.text = RemoveFromText(@, lang, First(mid.projectLanguages),
                                                  c.text.id \in ids)])

\* removeProjectLanguage up to its UI updates and saveState()
removeProjectLanguage(st, lang) ==
    IF Len(st.projectLanguages) <= 1 THEN st
    ELSE IF ~Includes(st.projectLanguages, lang) THEN st
    ELSE LET mid == RemoveSwitched(st, lang)
             ids == UnitTextIds(mid)
         IN MapHolders(mid, LAMBDA c :
                [c EXCEPT !.text = RemoveFromText(@, lang, First(mid.projectLanguages),
                                                  c.text.id \in ids)])

\* saveState() on state `new`, nothing drawn
SaveState(new) ==
    /\ state' = new
    /\ store' = StoreAfterSave(new, db, currentProjectId, store)
    /\ projects' = ProjectsAfterSave(new, db, currentProjectId, projects)
    /\ lastSaved' = SavedAfter(new, "none")

\* change of the add-language select
AddLanguageSelect(lang) ==
    /\ ~Includes(state.projectLanguages, lang)
    /\ SaveState(addProjectLanguage(state, lang))
    /\ UNCHANGED <<canvas, side, sideClick>>
    /\ UNCHANGED <<db, currentProjectId, slide, phoneModelLoaded, threeDefined, call, modal, dup,
                   pendingFiles, loads, exp, md, currentTranslationsIndex, pendingTrans>>

\* click on an item of the language menu
LanguageMenuItem(lang) ==
    /\ Includes(state.projectLanguages, lang)
    /\ UpdateCanvas(switchGlobalLanguage(state, lang))
    /\ UNCHANGED <<db, currentProjectId, slide, phoneModelLoaded, threeDefined, call, modal, dup,
                   pendingFiles, loads, exp, md, currentTranslationsIndex, pendingTrans>>

\* removeProjectLanguage(lang): a rejected call changes and saves nothing;
\* the canvas is redrawn only by switchGlobalLanguage, before the purge
RemoveLanguageButton(lang) ==
    LET new == removeProjectLanguage(state, lang)
        mid == RemoveSwitched(state, lang)
        switched == state.currentLanguage = lang
    IN
    /\ IF new = state
       THEN UNCHANGED <<state, store, projects, lastSaved, canvas, side, sideClick>>
       ELSE /\ SaveState(new)
            /\ canvas' = IF switched THEN MainCanvas(mid, Ready) ELSE canvas
            /\ side' = IF switched THEN updateSidePreviews(mid, FALSE, Ready, side) ELSE side
            /\ sideClick' = IF switched THEN SideClickAfter(mid) ELSE sideClick
    /\ UNCHANGED <<db, currentProjectId, slide, phoneModelLoaded, threeDefined, call, modal, dup,
                   pendingFiles, loads, exp, md, currentTranslationsIndex, pendingTrans>>

openScreenshotTranslationsModal(index) ==
    /\ index \in ListIndices
    /\ currentTranslationsIndex' = index
    /\ UNCHANGED <<state, db, store, currentProjectId, projects, canvas, side, sideClick,
                   slide, phoneModelLoaded, threeDefined, call, modal, dup, pendingFiles, loads, exp, md,
                   pendingTrans, lastSaved>>

\* the close button of the translations modal
closeScreenshotTranslationsModal ==
    /\ currentTranslationsIndex # -1
    /\ currentTranslationsIndex' = -1
    /\ UNCHANGED <<state, db, store, currentProjectId, projects, canvas, side, sideClick,
                   slide, phoneModelLoaded, threeDefined, call, modal, dup, pendingFiles, loads, exp, md,
                   pendingTrans, lastSaved>>

\* an image file is chosen for a language row of the translations modal;
\* `unit` remembers the unit whose modal it was chosen in
handleTranslationFileSelect(lang, name) ==
    /\ currentTranslationsIndex # -1
    /\ Includes(state.projectLanguages, lang)
    /\ Len(pendingTrans) < MaxPending
    /\ pendingTrans' = Append(pendingTrans,
                              [lang |-> lang, name |-> name,
                               unit |-> UnitAt(state, currentTranslationsIndex).uid])
    /\ UNCHANGED <<state, db, store, currentProjectId, projects, canvas, side, sideClick,
                   slide, phoneModelLoaded, threeDefined, call, modal, dup, pendingFiles, loads, exp, md,
                   currentTranslationsIndex, lastSaved>>

addLocalizedImage(st, screenshotIndex, lang, image, name) ==
    LET screenshot == UnitAt(st, screenshotIndex)
        old == IF Has(screenshot, "localizedImages") THEN screenshot.localizedImages
               ELSE [l \in {} |-> Null]
        put == [st EXCEPT !.screenshots[screenshotIndex + 1] =
                   Put(screenshot, "localizedImages",
                       Put(old, lang, [image |-> image, src |-> image, name |-> name]))]
    IN addProjectLanguage(put, lang)

\* img.onload of the k-th translation image being decoded
TranslationImgOnload(k) ==
    /\ k \in 1..Len(pendingTrans)
    /\ pendingTrans' = RemoveAt(pendingTrans, k)
    /\ IF IsUnit(UnitAt(state, currentTranslationsIndex))
       THEN UpdateCanvas(addLocalizedImage(state, currentTranslationsIndex,
                                           pendingTrans[k].lang, pendingTrans[k].name,
                                           pendingTrans[k].name))
       ELSE UNCHANGED <<state, store, projects, lastSaved, canvas, side, sideClick>>
    /\ UNCHANGED <<db, currentProjectId, slide, phoneModelLoaded, threeDefined, call, modal, dup,
                   pendingFiles, loads, exp, md, currentTranslationsIndex>>

NextLang ==
    \/ handleFiles("a.png")
    \/ \E k \in 1..MaxPending : ImgOnload(k)
    \/ HeadlineInput("Hi")
    \/ \E lang \in Langs : AddLanguageSelect(lang)
    \/ \E lang \in Langs : LanguageMenuItem(lang)
    \/ \E lang \in Langs : RemoveLanguageButton(lang)
    \/ \E index \in 0..(MaxUnits - 1) : openScreenshotTranslationsModal(index)
    \/ handleTranslationFileSelect("de", "de.png")
    \/ \E k \in 1..MaxPending : TranslationImgOnload(k)

InitLang == Init /\ ~threeDefined
SpecLang == InitLang /\ [][NextLang]_vars

\* `lang` has left the enabled languages in this step
Removed(lang) ==
    Includes(state.projectLanguages, lang) /\ ~Includes(state'.projectLanguages, lang)

\* No unit and not the defaults keep anything for `lang`
NoEntry(st, lang) ==
    \A c \in Holders(st) :
        /\ ~Has(c.text.headlines.map, lang) /\ ~Includes(c.text.headlineLanguages, lang)
        /\ ~Has(c.text.subheadlines.map, lang) /\ ~Includes(c.text.subheadlineLanguages, lang)
        /\ Has(c, "localizedImages") => ~Has(c.localizedImages, lang)

\* C8: once removeProjectLanguage(lang) has removed lang from
\* state.projectLanguages, no unit has an entry for lang in its headlines,
\* subheadlines or localizedImages map or in its language lists, and neither
\* have the defaults.
LanguagePurge == [][\A lang \in Langs : Removed(lang) => NoEntry(state', lang)]_vars

\* The language values that point at a language: the global one and the two
\* of every unit, by position
Pointers(st) ==
    <<st.currentLanguage>> \o
    [j \in 1..(2 * Len(st.screenshots)) |->
        LET u == st.screenshots[(j + 1) \div 2] IN
        IF ~IsUnit(u) THEN Null
        ELSE IF j % 2 = 1 THEN u.text.currentHeadlineLang ELSE u.text.currentSubheadlineLang]

\* C9: once removeProjectLanguage(lang) has removed lang, neither
\* state.currentLanguage nor a unit's currentHeadlineLang or
\* currentSubheadlineLang equals lang, and each of them that equalled lang
\* before equals state.projectLanguages[0].
LanguageRepointing ==
    [][\A lang \in Langs : Removed(lang) =>
          /\ Len(Pointers(state')) = Len(Pointers(state))
          /\ \A j \in 1..Len(Pointers(state)) :
                /\ Pointers(state')[j] # lang
                /\ Pointers(state)[j] = lang =>
                       Pointers(state')[j] = First(state'.projectLanguages)]_vars

\* A unit made while "fr" was the global language still showed "en"; "en"
\* was removed from <<"en", "de", "fr">> and the unit now shows "de"
LanguageRepointingWitness ==
    /\ state.projectLanguages = <<"de", "fr">>
    /\ state.currentLanguage = "fr"
    /\ \E k \in 1..Len(state.screenshots) :
           /\ IsUnit(state.screenshots[k])
           /\ state.screenshots[k].text.currentHeadlineLang = "de"
           /\ state.screenshots[k].text.currentSubheadlineLang = "de"

\* C10: removeProjectLanguage called with a single enabled language changes
\* nothing, so that state.projectLanguages is never empty.
OnlyLanguageKept ==
    /\ Len(state.projectLanguages) >= 1
    /\ Len(state.projectLanguages) = 1 =>
           \A lang \in Langs : removeProjectLanguage(state, lang) = state

\* "de" is the only language left after "en" was removed, with a unit
OnlyLanguageKeptWitness ==
    /\ state.projectLanguages = <<"de">>
    /\ state.currentLanguage = "de"
    /\ NumUnits(state) > 0

\* ===================================== magical designer failures (C11)
\* The run ends in its catch block with the alert shown.  The analysis
\* request fails or its answer is not parseable JSON (thrown before step 4a),
\* the answer lacks `copy` (designData.copy[String(0)] throws in the first
\* iteration of 4a), or it lacks `design_analysis` (4a has run for every unit
\* when designData.design_analysis.font_style throws in 4b).
MdResponseError(kind) ==
    LET copied == ApplyCopy(state, 0, md.sourceLang) IN
    /\ md.pc = "analysis"
    /\ state' = IF kind = "noDesignAnalysis" THEN copied ELSE state
    /\ md' = [pc |-> "error", sourceLang |-> md.sourceLang, image |-> Null, units |-> << >>]
    /\ lastSaved' = [lastSaved EXCEPT !.trip = "none", !.expect = lastSaved.view]
    /\ UNCHANGED <<db, store, currentProjectId, projects, canvas, side, sideClick,
                   slide, phoneModelLoaded, threeDefined, call, modal, dup, pendingFiles, loads, exp,
                   currentTranslationsIndex, pendingTrans>>

\* bgImg.onerror: the promise of step 4c rejects
MdDecodeError ==
    /\ md.pc = "decode"
    /\ md' = [pc |-> "error", sourceLang |-> md.sourceLang, image |-> Null, units |-> << >>]
    /\ UNCHANGED <<state, db, store, currentProjectId, projects, canvas, side, sideClick,
                   slide, phoneModelLoaded, threeDefined, call, modal, dup, pendingFiles, loads, exp,
                   currentTranslationsIndex, pendingTrans, lastSaved>>

\* the alert of the catch block is closed
MdAlertClose ==
    /\ md.pc = "error"
    /\ md' = IdleDesigner
    /\ UNCHANGED <<state, db, store, currentProjectId, projects, canvas, side, sideClick,
                   slide, phoneModelLoaded, threeDefined, call, modal, dup, pendingFiles, loads, exp,
                   currentTranslationsIndex, pendingTrans, lastSaved>>

\* Uploads and selection while no run is under way, and the runs
UserDesigner ==
    \/ handleFiles("a.png")
    \/ \E k \in 1..MaxPending : ImgOnload(k)
    \/ \E index \in 0..MaxUnits : ItemClick(index)
    \/ NoiseToggle(TRUE)
    \/ HeadlineSizeInput(80)
    \/ MdStart("en")

NextDesigner ==
    \/ md.pc = "idle" /\ UserDesigner
    \/ \E image \in {Null, "generated.png"} : MdApplyCopy(image)
    \/ MdApplyDesign
    \/ \E kind \in {"failed", "unparseable", "noCopy", "noDesignAnalysis"} :
           MdResponseError(kind)
    \/ MdDecodeError
    \/ MdAlertClose

InitDesigner == Init /\ ~threeDefined
SpecDesigner == InitDesigner /\ [][NextDesigner]_vars

\* C11: a run of generateMagicalDesigns that ends in its error path has
\* changed no unit's text, background or screenshot settings: no step of the
\* run that ends in the catch block, or that leaves the run waiting for the
\* background image decode which can still fail, changes a setting; and the
\* error message is shown.
DesignerFailureKeepsSettings ==
    [][(md' # md /\ md'.pc \in {"decode", "error"}) => View(state') = View(state)]_vars

\* ================================== undecodable images (C12, C13)
\* The image of the k-th chosen file cannot be decoded: handleFiles sets no
\* onerror, the file yields no unit and nothing else happens
ImgOnerror(k) ==
    /\ k \in 1..Len(pendingFiles)
    /\ pendingFiles' = RemoveAt(pendingFiles, k)
    /\ UNCHANGED <<state, db, store, currentProjectId, projects, canvas, side, sideClick,
                   slide, phoneModelLoaded, threeDefined, call, modal, dup, loads, exp, md,
                   currentTranslationsIndex, pendingTrans, lastSaved>>

\* The image of the stored unit at `index` cannot be decoded: loadState sets
\* no onerror, state.screenshots[index] is never written and loadedCount
\* is not incremented
LoadImgError(k, index) ==
    /\ k \in 1..Len(loads)
    /\ loads[k].pc = "decoding"
    /\ index \in loads[k].todo
    /\ loads' = IF loads[k].todo = {index} THEN RemoveAt(loads, k)
                ELSE [loads EXCEPT ![k].todo = @ \ {index}]
    /\ UNCHANGED <<state, db, store, currentProjectId, projects, canvas, side, sideClick,
                   slide, phoneModelLoaded, threeDefined, call, modal, dup, pendingFiles, exp, md,
                   currentTranslationsIndex, pendingTrans, lastSaved>>

\* Uploads, a background setting, selection and batch export, with page
\* reloads whose image decodes may fail; the page is used once its load has
\* ended
UserLoad ==
    \/ handleFiles("a.png")
    \/ \E k \in 1..MaxPending : ImgOnload(k)
    \/ \E k \in 1..MaxPending : ImgOnerror(k)
    \/ \E index \in 0..MaxUnits : ItemClick(index)
    \/ NoiseToggle(TRUE)
    \/ ExportAllClick

NextLoad ==
    \/ loads = << >> /\ UserLoad
    \/ Reload
    \/ \E k \in 1..MaxLoads : OpenDatabaseSuccess(k)
    \/ \E k \in 1..MaxLoads : LoadSuccess(k)
    \/ \E k \in 1..MaxLoads, index \in 0..(MaxUnits - 1) : LoadImgOnload(k, index)
    \/ \E k \in 1..MaxLoads, index \in 0..(MaxUnits - 1) : LoadImgError(k, index)
    \/ ExportTimer
    \/ ExportDownload

InitLoad == Init /\ ~threeDefined
SpecLoad == InitLoad /\ [][NextLoad]_vars

\* A canvas holds a render that starts with the background and ends with the text
HoldsRender(c) ==
    /\ Len(c.layers) >= 2
    /\ c.layers[1].op = "background"
    /\ c.layers[Len(c.layers)].op = "text"

\* C12: a position whose image is missing does not abort rendering: the main
\* canvas and every displayed preview hold a render with background and
\* text, whether or not the position they show has an image, and a batch
\* export yields an entry for every position the project had when it
\* started, the ones without an image and the ones after them included.
MissingImageStillRendered ==
    /\ HoldsRender(canvas)
    /\ \A c \in DOMAIN side : ~side[c].hidden => HoldsRender(side[c].content)
    /\ exp.pc = "zip" => Len(exp.entries) >= Len(exp.units)

\* C13: once the decodes of the chosen files and of the stored units have
\* ended, one of them having failed or not, state.screenshots has no missing
\* entry and the refresh that concludes loading has run: the canvas shows
\* the state.
UndecodableRejectedAlone ==
    (loads = << >> /\ pendingFiles = << >>) =>
        /\ \A k \in 1..Len(state.screenshots) : IsUnit(state.screenshots[k])
        /\ canvas = MainCanvas(state, Ready)

\* ============================ settings without a current unit (C14, C15)
\* rotation-3d-x / -y / -z input: writes rotation3D of getScreenshotSettings(),
\* creating it first when it is not there
Rotation3DInput(axis, value) ==
    LET ss == getScreenshotSettings(state)
        a == IF Has(ss, "rotation3D") THEN state
             ELSE WriteTop(state, "screenshot", ss.id, LAMBDA o :
                      Put(o, "rotation3D", [id |-> ss.id, x |-> 0, y |-> 0, z |-> 0]))
    IN
    /\ UpdateCanvas(WriteSub(a, "screenshot", "rotation3D",
                             getScreenshotSettings(a).rotation3D.id,
                             LAMBDA o : Put(o, axis, value)))
    /\ UNCHANGED <<db, currentProjectId, slide, phoneModelLoaded, threeDefined, call, modal, dup,
                   pendingFiles, loads, exp, md, currentTranslationsIndex, pendingTrans>>

\* switchHeadlineLanguage / switchSubheadlineLanguage: the current language
\* of one role of getTextSettings()
switchHeadlineLanguage(lang) ==
    /\ UpdateCanvas(WriteTop(state, "text", getText(state).id,
                             LAMBDA o : Put(o, "currentHeadlineLang", lang)))
    /\ UNCHANGED <<db, currentProjectId, slide, phoneModelLoaded, threeDefined, call, modal, dup,
                   pendingFiles, loads, exp, md, currentTranslationsIndex, pendingTrans>>

switchSubheadlineLanguage(lang) ==
    /\ UpdateCanvas(WriteTop(state, "text", getText(state).id,
                             LAMBDA o : Put(o, "currentSubheadlineLang", lang)))
    /\ UNCHANGED <<db, currentProjectId, slide, phoneModelLoaded, threeDefined, call, modal, dup,
                   pendingFiles, loads, exp, md, currentTranslationsIndex, pendingTrans>>

\* The settings operations of the panels, used on a project without units
SettingsOps ==
    \/ \E b \in BOOLEAN : NoiseToggle(b)
    \/ ShadowOpacityInput(40)
    \/ HeadlineSizeInput(80)
    \/ AddGradientStop
    \/ \E index \in 0..(MaxStops - 1) : StopColorInput(index, "#00ff00")
    \/ \E index \in 0..(MaxStops - 1) : StopDelete(index)
    \/ HeadlineInput("Hi")
    \/ \E axis \in {"x", "y"} : Rotation3DInput(axis, 15)
    \/ \E lang \in {"en", "de"} : switchHeadlineLanguage(lang)
    \/ switchSubheadlineLanguage("de")

NextDefaults ==
    \/ NumUnits(state) = 0 /\ pendingFiles = << >> /\ SettingsOps
    \/ handleFiles("a.png")
    \/ \E k \in 1..MaxPending : ImgOnload(k)
    \/ \E index \in 0..(MaxUnits - 1) : ItemClick(index)
    \/ \E index \in 0..(MaxUnits - 1) : DeleteButton(index)

InitDefaults == Init /\ ~threeDefined
SpecDefaults == InitDefaults /\ [][NextDefaults]_vars

\* keys the panels pass to setBackground and setScreenshotSetting, by the
\* type of the value, and the values tried
ToggleKeys == [background |-> {<<"noise">>},
               screenshot |-> {<<"use3D">>, <<"shadow", "enabled">>, <<"frame", "enabled">>}]
NumberKeys == [background |-> {<<"noiseIntensity">>, <<"gradient", "angle">>},
               screenshot |-> {<<"scale">>, <<"shadow", "blur">>, <<"frame", "width">>}]
ColorKeys == [background |-> {<<"solid">>},
              screenshot |-> {<<"shadow", "color">>, <<"frame", "color">>}]
NumberValues == {0, 40}
ColorValues == {"#00ff00"}

\* setBackground / setScreenshotSetting returns with the state as it was
NoOp(st, top, key, value) ==
    ~SetThrows(st, top, key) /\ SetOn(st, top, key, value) = st

\* C14: in a project without units, setBackground, setScreenshotSetting and
\* setTextSetting, with a plain or a dotted key, do not throw and return
\* with the whole state, state.defaults included, as it was.
SettersNoOpWithoutUnit ==
    NumUnits(state) = 0 =>
        /\ setBackground(state, <<"gradient", "stops">>, NewStops(state, PresetStops)) = state
        /\ setTextSetting(state, "headlineEnabled", FALSE) = state
        /\ setTextSetting(state, "headlineSize", 40) = state
        /\ setTextSetting(state, "headlineColor", "#00ff00") = state
        /\ \A top \in {"background", "screenshot"} :
               /\ \A key \in ToggleKeys[top], value \in BOOLEAN :
                      NoOp(state, top, key, value)
               /\ \A key \in NumberKeys[top], value \in NumberValues :
                      NoOp(state, top, key, value)
               /\ \A key \in ColorKeys[top], value \in ColorValues :
                      NoOp(state, top, key, value)

\* A project without units whose default gradient has a third stop, on
\* which the setters are called
SettersNoOpWithoutUnitWitness ==
    /\ NumUnits(state) = 0
    /\ projects[1].screenshotCount = 0
    /\ Len(state.defaults.background.gradient.stops.items) = 3
    /\ setBackground(state, <<"gradient", "angle">>, 40).defaults = state.defaults
    /\ setTextSetting(state, "headlineSize", 40).defaults = state.defaults

\* C15: with no unit before and after, and the project languages as they
\* were, a step leaves state.defaults unchanged.
DefaultsNotMutated ==
    [][(NumUnits(state) = 0 /\ NumUnits(state') = 0
        /\ state'.projectLanguages = state.projectLanguages)
       => state'.defaults = state.defaults]_vars

\* ================================= dotted keys on an older unit (C16)
\* loadState takes the settings objects of a stored unit as they are
\* (s.background, s.screenshot), so a unit stored by a release that did not
\* have the gradient, the shadow or the frame yet comes back without that
\* object; drawScreenshotToContext tests for settings.shadow and
\* settings.frame for this reason.  `gone` are the objects the unit lacks.
Without(o, gone) == [k \in (DOMAIN o) \ gone |-> o[k]]

OlderUnit(gone) ==
    [uid |-> 1, image |-> "a.png", name |-> "a.png",
     background |-> Without(JsonCopyBackground(FirstState.defaults.background, 1), gone),
     screenshot |-> Without(JsonCopyScreenshot(FirstState.defaults.screenshot, 1), gone),
     text |-> JsonCopyText(FirstState.defaults.text, 1)]

OlderState(gone) == [FirstState EXCEPT !.screenshots = <<OlderUnit(gone)>>]

\* The project holds one such unit, current; the canvas is the one init()
\* drew before the unit was decoded
InitSetter ==
    /\ \E gone \in SUBSET {"gradient", "shadow", "frame"} : state = OlderState(gone)
    /\ db = "open"
    /\ currentProjectId = "default"
    /\ store = [q \in {"default"} |-> stateToSave(state, "default")]
    /\ projects = <<[id |-> "default", name |-> "Default Project", screenshotCount |-> 1]>>
    /\ threeDefined = FALSE
    /\ call = NoCall
    /\ modal = ClosedModal
    /\ dup = ClosedDialog(TRUE)
    /\ phoneModelLoaded = FALSE
    /\ canvas = MainCanvas(FirstState, FALSE)
    /\ side = InitialSide
    /\ sideClick = [left |-> -1, right |-> -1]
    /\ slide = IdleSlide
    /\ pendingFiles = << >>
    /\ loads = << >>
    /\ exp = IdleExport
    /\ md = IdleDesigner
    /\ currentTranslationsIndex = -1
    /\ pendingTrans = << >>
    /\ lastSaved = [view |-> View(FirstState), trip |-> "none", expect |-> View(FirstState)]

Dotted(keys) == {key \in keys : Len(key) = 2}

\* setBackground(key, value) / setScreenshotSetting(key, value), called
\* with a dotted key; a call that throws has written nothing
SetterCall(top, key, value) ==
    /\ state' = SetOn(state, top, key, value)
    /\ UNCHANGED <<db, store, currentProjectId, projects, canvas, side, sideClick, slide,
                   phoneModelLoaded, threeDefined, call, modal, dup, pendingFiles, loads, exp, md,
                   currentTranslationsIndex, pendingTrans, lastSaved>>

NextSetter ==
    \E top \in {"background", "screenshot"} :
        \/ \E key \in Dotted(ToggleKeys[top]), value \in BOOLEAN : SetterCall(top, key, value)
        \/ \E key \in Dotted(NumberKeys[top]), value \in NumberValues : SetterCall(top, key, value)
        \/ \E key \in Dotted(ColorKeys[top]), value \in ColorValues : SetterCall(top, key, value)

SpecSetter == InitSetter /\ [][NextSetter]_vars

\* the current unit has the object key[1] of its `top` settings, holding
\* `value` under key[2], once the setter has been called
Created(top, key, value) ==
    LET after == getCurrentScreenshot(SetOn(state, top, key, value))[top]
    IN /\ ~SetThrows(state, top, key)
       /\ Has(after, key[1])
       /\ after[key[1]][key[2]] = value
       /\ Without(after, {key[1]}) = Without(getCurrentScreenshot(state)[top], {key[1]})

\* C16: setBackground / setScreenshotSetting with a dotted key, on a current
\* unit that lacks the intermediate object, does not throw, creates the
\* intermediate object and sets the leaf, and changes no other field.
NestedPathCreated ==
    \A top \in {"background", "screenshot"} :
        /\ \A key \in Dotted(ToggleKeys[top]), value \in BOOLEAN :
               ~Has(getCurrentScreenshot(state)[top], key[1]) => Created(top, key, value)
        /\ \A key \in Dotted(NumberKeys[top]), value \in NumberValues :
               ~Has(getCurrentScreenshot(state)[top], key[1]) => Created(top, key, value)
        /\ \A key \in Dotted(ColorKeys[top]), value \in ColorValues :
               ~Has(getCurrentScreenshot(state)[top], key[1]) => Created(top, key, value)

\* ============================================ localized images (C17)
\* migrateScreenshotToLocalized(state.screenshots[index], detectedLang)
migrateScreenshotToLocalized(st, index, detectedLang) ==
    LET screenshot == UnitAt(st, index) IN
    IF ~IsUnit(screenshot) THEN st
    ELSE IF Has(screenshot, "localizedImages") /\ DOMAIN screenshot.localizedImages # {}
    THEN st
    ELSE [st EXCEPT !.screenshots[index + 1] =
             Put(screenshot, "localizedImages",
                 IF screenshot.image # Null
                 THEN (detectedLang :> [image |-> screenshot.image, src |-> screenshot.image,
                                        name |-> screenshot.name])
                 ELSE [l \in {} |-> Null])]

MigrateCall(index, detectedLang) ==
    /\ index \in ListIndices
    /\ state' = migrateScreenshotToLocalized(state, index, detectedLang)
    /\ UNCHANGED <<db, store, currentProjectId, projects, canvas, side, sideClick, slide,
                   phoneModelLoaded, threeDefined, call, modal, dup, pendingFiles, loads, exp, md,
                   currentTranslationsIndex, pendingTrans, lastSaved>>

removeLocalizedImage(st, screenshotIndex, lang) ==
    LET screenshot == UnitAt(st, screenshotIndex) IN
    IF ~IsUnit(screenshot) \/ ~Has(screenshot, "localizedImages")
       \/ ~Has(screenshot.localizedImages, lang)
    THEN st
    ELSE [st EXCEPT !.screenshots[screenshotIndex + 1].localizedImages = Del(@, lang)]

\* the remove button of a language row of the translations modal, which
\* the row has when the unit has an image for the language
TranslationRemoveClick(lang) ==
    LET screenshot == UnitAt(state, currentTranslationsIndex) IN
    /\ IsUnit(screenshot)
    /\ Includes(state.projectLanguages, lang)
    /\ Has(screenshot, "localizedImages") /\ Has(screenshot.localizedImages, lang)
    /\ UpdateCanvas(removeLocalizedImage(state, currentTranslationsIndex, lang))
    /\ UNCHANGED <<db, currentProjectId, slide, phoneModelLoaded, threeDefined, call, modal, dup,
                   pendingFiles, loads, exp, md, currentTranslationsIndex, pendingTrans>>

NextLocalized ==
    \/ handleFiles("a.png")
    \/ \E k \in 1..MaxPending : ImgOnload(k)
    \/ AddLanguageSelect("de")
    \/ \E index \in 0..(MaxUnits - 1) : openScreenshotTranslationsModal(index)
    \/ handleTranslationFileSelect("de", "de.png")
    \/ \E k \in 1..MaxPending : TranslationImgOnload(k)
    \/ \E lang \in Langs : TranslationRemoveClick(lang)
    \/ \E index \in 0..(MaxUnits - 1), lang \in {"en", "de"} : MigrateCall(index, lang)

InitLocalized == Init /\ ~threeDefined
SpecLocalized == InitLocalized /\ [][NextLocalized]_vars

LocalizedCount(u) ==
    IF Has(u, "localizedImages") THEN Cardinality(DOMAIN u.localizedImages) ELSE 0

\* the unit holds the entry the migration made of its own image
Migrated(u) ==
    /\ IsUnit(u) /\ Has(u, "localizedImages")
    /\ \E l \in DOMAIN u.localizedImages :
           u.localizedImages[l] = [image |-> u.image, src |-> u.image, name |-> u.name]

\* C17: a unit migrated by migrateScreenshotToLocalized has at least one
\* localized image after the next step, whichever of addLocalizedImage,
\* removeLocalizedImage and the migration it is, and migrating it again
\* changes nothing.
MigratedKeepsImage ==
    [][\A k \in 1..Len(state.screenshots) :
          Migrated(state.screenshots[k]) =>
              /\ \A lang \in Langs : migrateScreenshotToLocalized(state, k - 1, lang) = state
              /\ \A j \in 1..Len(state'.screenshots) :
                     state'.screenshots[j].uid = state.screenshots[k].uid
                         => LocalizedCount(state'.screenshots[j]) >= 1]_vars

\* ==================================== language utilities (C18, C19, C20)
\* A file name is the sequence of its characters; a language code likewise.
LowerCase ==
    <<"a", "b", "c", "d", "e", "f", "g", "h", "i", "j", "k", "l", "m",
      "n", "o", "p", "q", "r", "s", "t", "u", "v", "w", "x", "y", "z">>
UpperCase ==
    <<"A", "B", "C", "D", "E", "F", "G", "H", "I", "J", "K", "L", "M",
      "N", "O", "P", "Q", "R", "S", "T", "U", "V", "W", "X", "Y", "Z">>

Least(S) == CHOOSE k \in S : \A j \in S : k <= j
Greatest(S) == CHOOSE k \in S : \A j \in S : k >= j

toLowerCase(s) ==
    [k \in 1..Len(s) |->
        IF \E n \in 1..26 : UpperCase[n] = s[k]
        THEN LowerCase[CHOOSE n \in 1..26 : UpperCase[n] = s[k]] ELSE s[k]]

\* [a-z] and [_-] under the i flag
IsLetter(c) == \E n \in 1..26 : LowerCase[n] = c \/ UpperCase[n] = c
IsDelimiter(c) == c \in {"_", "-"}

\* Object.keys(languageFlags)
languageFlags ==
    << <<"e", "n">>, <<"e", "n", "-", "g", "b">>, <<"d", "e">>, <<"f", "r">>,
      <<"e", "s">>, <<"i", "t">>, <<"p", "t">>, <<"p", "t", "-", "b", "r">>,
      <<"n", "l">>, <<"r", "u">>, <<"j", "a">>, <<"k", "o">>, <<"z", "h">>,
      <<"z", "h", "-", "t", "w">>, <<"a", "r">>, <<"h", "i">>, <<"t", "r">>,
      <<"p", "l">>, <<"s", "v">>, <<"d", "a">>, <<"n", "o">>, <<"f", "i">>,
      <<"t", "h">>, <<"v", "i">>, <<"i", "d">> >>

\* [...supportedLangs].sort((a, b) => b.length - a.length): the sort is
\* stable, and the codes have five characters or two
sortedLangs ==
    SelectSeq(languageFlags, LAMBDA l : Len(l) = 5)
    \o SelectSeq(languageFlags, LAMBDA l : Len(l) = 2)

\* lang.replace('-', '[-_]?'): the texts the escaped code matches
escapedLang(lang) ==
    LET hyphens == {k \in 1..Len(lang) : lang[k] = "-"} IN
    IF hyphens = {} THEN {lang}
    ELSE LET h == Least(hyphens) IN
         {SubSeq(lang, 1, h - 1) \o m \o SubSeq(lang, h + 1, Len(lang)) :
             m \in {<< >>, <<"-">>, <<"_">>}}

\* [_-]${escapedLang}(?:[_-][a-z]{2})? matched from position i of s: the
\* positions at which a match can end
MatchEnds(s, i, lang) ==
    {e \in i..Len(s) :
        /\ IsDelimiter(s[i])
        /\ \E v \in escapedLang(lang) :
              \/ /\ e = i + Len(v)
                 /\ toLowerCase(SubSeq(s, i + 1, e)) = v
              \/ /\ e = i + Len(v) + 3
                 /\ toLowerCase(SubSeq(s, i + 1, i + Len(v))) = v
                 /\ IsDelimiter(s[e - 2]) /\ IsLetter(s[e - 1]) /\ IsLetter(s[e])}

\* pattern.test(lower) of detectLanguageFromFilename: the pattern and then
\* a '.', anywhere in the name
DetectTest(lower, lang) ==
    \E i \in 1..Len(lower) : \E e \in MatchEnds(lower, i, lang) :
        e < Len(lower) /\ lower[e + 1] = "."

DetectIn(langs, filename) ==
    LET lower == toLowerCase(filename)
        hits == {k \in 1..Len(langs) : DetectTest(lower, langs[k])}
    IN IF hits = {} THEN <<"e", "n">> ELSE langs[Least(hits)]

\* detectLanguageFromFilename trying the codes in the order of languageFlags
detectLanguageUnsorted(filename) == DetectIn(languageFlags, filename)

detectLanguageFromFilename(filename) == DetectIn(sortedLangs, filename)

\* filename.replace(/\.[^.]+$/, ''): from the last '.', when characters follow it
withoutExt(filename) ==
    LET dots == {k \in 1..Len(filename) : filename[k] = "."} IN
    IF dots = {} \/ Greatest(dots) = Len(filename) THEN filename
    ELSE SubSeq(filename, 1, Greatest(dots) - 1)

\* where the pattern, anchored at the end of s, can start
BaseStarts(s, lang) == {i \in 1..Len(s) : Len(s) \in MatchEnds(s, i, lang)}

getBaseFilename(filename) ==
    LET w == withoutExt(filename)
        hits == {k \in 1..Len(sortedLangs) : BaseStarts(w, sortedLangs[k]) # {}}
    IN IF hits = {} THEN w
       ELSE SubSeq(w, 1, Least(BaseStarts(w, sortedLangs[Least(hits)])) - 1)

\* findScreenshotByBaseFilename, on a state.screenshots of units
findScreenshotByBaseFilename(st, filename) ==
    LET baseName == getBaseFilename(filename)
        IsMatch(s) == /\ Has(s, "localizedImages")
                      /\ \E lang \in DOMAIN s.localizedImages :
                            /\ s.localizedImages[lang].name # << >>
                            /\ getBaseFilename(s.localizedImages[lang].name) = baseName
        hits == {i \in 1..Len(st.screenshots) : IsMatch(st.screenshots[i])}
    IN IF hits = {} THEN -1 ELSE Least(hits) - 1

\* screenshot.localizedImages?.[l]?.image
ImageOf(screenshot, l) ==
    IF Has(screenshot, "localizedImages") /\ Has(screenshot.localizedImages, l)
    THEN screenshot.localizedImages[l].image ELSE Null

\* getScreenshotImage that tries the project languages before the current one
getScreenshotImageProjectFirst(st, screenshot, keys) ==
    LET inProject == {k \in 1..Len(st.projectLanguages) :
                         ImageOf(screenshot, st.projectLanguages[k]) # Null}
        inKeys == {k \in 1..Len(keys) : ImageOf(screenshot, keys[k]) # Null}
    IN IF ~IsUnit(screenshot) THEN Null
       ELSE IF inProject # {} THEN ImageOf(screenshot, st.projectLanguages[Least(inProject)])
       ELSE IF ImageOf(screenshot, st.currentLanguage) # Null
       THEN ImageOf(screenshot, st.currentLanguage)
       ELSE IF inKeys # {} THEN ImageOf(screenshot, keys[Least(inKeys)])
       ELSE screenshot.image

\* getScreenshotImage(screenshot); keys is Object.keys(screenshot.localizedImages)
getScreenshotImage(st, screenshot, keys) ==
    LET inProject == {k \in 1..Len(st.projectLanguages) :
                         ImageOf(screenshot, st.projectLanguages[k]) # Null}
        inKeys == {k \in 1..Len(keys) : ImageOf(screenshot, keys[k]) # Null}
    IN IF ~IsUnit(screenshot) THEN Null
       ELSE IF ImageOf(screenshot, st.currentLanguage) # Null
       THEN ImageOf(screenshot, st.currentLanguage)
       ELSE IF inProject # {} THEN ImageOf(screenshot, st.projectLanguages[Least(inProject)])
       ELSE IF inKeys # {} THEN ImageOf(screenshot, keys[Least(inKeys)])
       ELSE screenshot.image

\* ---- the inputs tried
\* file names: a stem, a language suffix or none, a further dotted part or
\* none, an extension or none
CodeForms == {<<"d", "e">>, <<"D", "E">>, <<"f", "r">>, <<"p", "t">>, <<"p", "t", "-", "b", "r">>, <<"p", "t", "_", "b", "r">>, <<"x", "x">>}
Regions == {<<"d", "e">>, <<"c", "a">>}
Delimiters == {<<"_">>, <<"-">>}
Tails ==
    {<< >>}
    \cup {d \o c : d \in Delimiters, c \in CodeForms}
    \cup {d \o c \o e \o r : d \in Delimiters, c \in CodeForms, e \in Delimiters, r \in Regions}
FileNameSet ==
    {<<"a">> \o t \o m \o x : t \in Tails, m \in {<< >>, <<".", "b">>},
                             x \in {<< >>, <<".">>, <<".", "p", "n", "g">>}}

\* names of localized images already in the project, and names looked up
KnownNames == {<<"a", "_", "d", "e", ".", "p", "n", "g">>, <<"b", ".", "p", "n", "g">>, <<"a", "_", "f", "r", ".", "b", ".", "p", "n", "g">>}
LookupNames == KnownNames \cup {<<"a", "-", "f", "r", ".", "p", "n", "g">>, <<"b", "_", "p", "t", "-", "b", "r", ".", "p", "n", "g">>, <<"c", ".", "p", "n", "g">>}
KnownUnits ==
    {[uid |-> 1]} \cup {[uid |-> 1, localizedImages |-> ("en" :> [name |-> n])] : n \in KnownNames}
KnownLists ==
    {<< >>} \cup {<<u>> : u \in KnownUnits} \cup {<<u, v>> : u \in KnownUnits, v \in KnownUnits}

\* units for getScreenshotImage: localizedImages or none, each entry with an
\* image or without, and the `image` of the unit itself or none
EntryMaps ==
    UNION {[S -> {[image |-> Null], [image |-> "l.png"]}] : S \in SUBSET Langs}
ImageUnits ==
    {[uid |-> 1, image |-> img] : img \in {Null, "a.png"}}
    \cup {[uid |-> 1, image |-> img,
           localizedImages |-> [l \in DOMAIN map |-> [image |-> IF map[l].image = Null THEN Null ELSE l]]] :
             img \in {Null, "a.png"}, map \in EntryMaps}
LanguageLists ==
    {<<a>> : a \in Langs} \cup {s \in Langs \X Langs : s[1] # s[2]}
KeyOrders(u) ==
    IF ~Has(u, "localizedImages") THEN {<< >>}
    ELSE {s \in [1..Cardinality(DOMAIN u.localizedImages) -> DOMAIN u.localizedImages] :
             \A l \in DOMAIN u.localizedImages : \E k \in DOMAIN s : s[k] = l}

\* ---- the calls
DetectCall(filename) ==
    /\ call = NoCall
    /\ call' = [fn |-> "detectLanguageFromFilename", filename |-> filename,
                result |-> detectLanguageFromFilename(filename)]
    /\ UNCHANGED <<state, db, store, currentProjectId, projects, canvas, side, sideClick,
                   slide, phoneModelLoaded, threeDefined, modal, dup, pendingFiles, loads, exp, md,
                   currentTranslationsIndex, pendingTrans, lastSaved>>

BaseCall(filename) ==
    /\ call = NoCall
    /\ call' = [fn |-> "getBaseFilename", filename |-> filename,
                result |-> getBaseFilename(filename)]
    /\ UNCHANGED <<state, db, store, currentProjectId, projects, canvas, side, sideClick,
                   slide, phoneModelLoaded, threeDefined, modal, dup, pendingFiles, loads, exp, md,
                   currentTranslationsIndex, pendingTrans, lastSaved>>

FindCall(screenshots, filename) ==
    /\ call = NoCall
    /\ call' = [fn |-> "findScreenshotByBaseFilename", screenshots |-> screenshots,
                filename |-> filename,
                result |-> findScreenshotByBaseFilename([screenshots |-> screenshots], filename)]
    /\ UNCHANGED <<state, db, store, currentProjectId, projects, canvas, side, sideClick,
                   slide, phoneModelLoaded, threeDefined, modal, dup, pendingFiles, loads, exp, md,
                   currentTranslationsIndex, pendingTrans, lastSaved>>

ImageCall(currentLanguage, projectLanguages, screenshot, keys) ==
    /\ call = NoCall
    /\ call' = [fn |-> "getScreenshotImage", currentLanguage |-> currentLanguage,
                projectLanguages |-> projectLanguages, screenshot |-> screenshot,
                keys |-> keys,
                result |-> getScreenshotImage([currentLanguage |-> currentLanguage,
                                               projectLanguages |-> projectLanguages],
                                              screenshot, keys)]
    /\ UNCHANGED <<state, db, store, currentProjectId, projects, canvas, side, sideClick,
                   slide, phoneModelLoaded, threeDefined, modal, dup, pendingFiles, loads, exp, md,
                   currentTranslationsIndex, pendingTrans, lastSaved>>

\* the call returns to its caller
CallReturn ==
    /\ call # NoCall
    /\ call' = NoCall
    /\ UNCHANGED <<state, db, store, currentProjectId, projects, canvas, side, sideClick,
                   slide, phoneModelLoaded, threeDefined, modal, dup, pendingFiles, loads, exp, md,
                   currentTranslationsIndex, pendingTrans, lastSaved>>

NextUtil ==
    \/ CallReturn
    \/ \E filename \in FileNameSet : DetectCall(filename)
    \/ \E filename \in FileNameSet : BaseCall(filename)
    \/ \E screenshots \in KnownLists, filename \in LookupNames : FindCall(screenshots, filename)
    \/ \E currentLanguage \in Langs, projectLanguages \in LanguageLists,
          screenshot \in ImageUnits :
          \E keys \in KeyOrders(screenshot) :
              ImageCall(currentLanguage, projectLanguages, screenshot, keys)

InitUtil == Init /\ ~threeDefined
SpecUtil == InitUtil /\ [][NextUtil]_vars

\* ---- what the calls return
\* t ends with x
EndsWith(t, x) == Len(t) >= Len(x) /\ SubSeq(t, Len(t) - Len(x) + 1, Len(t)) = x

\* t ends with '_' or '-' and the code c (its '-' as it is, left out or '_')
CodeSuffix(t, c) == \E d \in Delimiters, v \in escapedLang(c) : EndsWith(t, d \o v)

\* the same, and then '_' or '-' and two letters
CodeRegionSuffix(t, c) ==
    /\ Len(t) >= 3
    /\ IsDelimiter(t[Len(t) - 2]) /\ IsLetter(t[Len(t) - 1]) /\ IsLetter(t[Len(t)])
    /\ CodeSuffix(SubSeq(t, 1, Len(t) - 3), c)

\* the code at k is the longest of those at K, the first of the longest
LongestOf(K, k) ==
    /\ k \in K
    /\ \A j \in K \ {k} :
          \/ Len(languageFlags[j]) < Len(languageFlags[k])
          \/ Len(languageFlags[j]) = Len(languageFlags[k]) /\ j > k

\* the image a call of getScreenshotImage returns, `last` being what it
\* returns for a unit without any localized image
FallbackOrder(last) ==
    LET u == call.screenshot
        pl == call.projectLanguages
    IN IF ImageOf(u, call.currentLanguage) # Null
       THEN call.result = ImageOf(u, call.currentLanguage)
       ELSE IF \E k \in 1..Len(pl) : ImageOf(u, pl[k]) # Null
       THEN \E k \in 1..Len(pl) :
               /\ call.result = ImageOf(u, pl[k]) /\ call.result # Null
               /\ \A j \in 1..(k - 1) : ImageOf(u, pl[j]) = Null
       ELSE IF \E l \in Langs : ImageOf(u, l) # Null
       THEN call.result \in {ImageOf(u, l) : l \in Langs} \ {Null}
       ELSE call.result = last

\* C18 as stated: getScreenshotImage returns the image of the current
\* language; else that of the first project language that has one; else
\* that of some language of the unit's localizedImages; else null.
ImageFallbackOrder ==
    call.fn = "getScreenshotImage" => FallbackOrder(Null)

\* C18: getScreenshotImage returns the image of the current language; else
\* that of the first project language that has one; else that of some
\* language of the unit's localizedImages; else the unit's own `image`, which
\* is null when the unit has none.
ImageFallbackOrderLegacy ==
    call.fn = "getScreenshotImage" => FallbackOrder(call.screenshot.image)

\* the current language has no image and two project languages have one:
\* the first of them is returned
ImageFallbackOrderWitness ==
    /\ call.fn = "getScreenshotImage"
    /\ call.currentLanguage = "fr"
    /\ call.projectLanguages = <<"de", "en">>
    /\ ImageOf(call.screenshot, "fr") = Null
    /\ ImageOf(call.screenshot, "en") = "en"
    /\ ImageOf(call.screenshot, "de") = "de"
    /\ call.result = "de"

\* C19 as stated: detectLanguageFromFilename returns the longest known code
\* that is a '_'- or '-'-delimited suffix of the name up to its extension
\* (up to its last '.'), and 'en' when no known code is such a suffix.
DetectLongestSuffix ==
    call.fn = "detectLanguageFromFilename" =>
        LET lower == toLowerCase(call.filename)
            dots == {p \in 1..Len(lower) : lower[p] = "."}
            found == {k \in 1..Len(languageFlags) :
                         /\ dots # {}
                         /\ CodeSuffix(SubSeq(lower, 1, Greatest(dots) - 1), languageFlags[k])}
        IN IF found = {} THEN call.result = <<"e", "n">>
           ELSE \E k \in found : LongestOf(found, k) /\ call.result = languageFlags[k]

\* C19: detectLanguageFromFilename returns the longest known code that the
\* lower-cased name has after a '_' or '-' and before a '.', any '.' of the
\* name, two letters after a '_' or '-' being allowed between the code and
\* the '.'; of two such codes of one length the one listed first in
\* languageFlags; and 'en' when there is no such code.
DetectLongestBeforeDot ==
    call.fn = "detectLanguageFromFilename" =>
        LET lower == toLowerCase(call.filename)
            Before(p) == SubSeq(lower, 1, p - 1)
            found == {k \in 1..Len(languageFlags) :
                         \E p \in 1..Len(lower) :
                            /\ lower[p] = "."
                            /\ \/ CodeSuffix(Before(p), languageFlags[k])
                               \/ CodeRegionSuffix(Before(p), languageFlags[k])}
        IN IF found = {} THEN call.result = <<"e", "n">>
           ELSE \E k \in found : LongestOf(found, k) /\ call.result = languageFlags[k]

\* 'a_pt-br.png' gives 'pt-br'
DetectLongestBeforeDotWitness ==
    /\ call.fn = "detectLanguageFromFilename"
    /\ call.filename = <<"a", "_", "p", "t", "-", "b", "r", ".", "p", "n", "g">>
    /\ call.result = <<"p", "t", "-", "b", "r">>

\* C20: getBaseFilename strips a suffix from a name exactly when
\* detectLanguageFromFilename finds a language in it, the suffix stripped is
\* one that names the language detected, and findScreenshotByBaseFilename
\* returns the lowest index of a unit that has a localized image of the same
\* base name, -1 when there is none.
DetectAndBaseAgree ==
    /\ call.fn \in {"detectLanguageFromFilename", "getBaseFilename"} =>
           LET w == withoutExt(call.filename)
               base == getBaseFilename(call.filename)
               lower == toLowerCase(call.filename)
           IN /\ base # w <=> \E k \in 1..Len(sortedLangs) : DetectTest(lower, sortedLangs[k])
              /\ base # w => Len(w) \in MatchEnds(w, Len(base) + 1,
                                                  detectLanguageFromFilename(call.filename))
    /\ call.fn = "findScreenshotByBaseFilename" =>
           LET SameBase(s) ==
                   /\ Has(s, "localizedImages")
                   /\ \E l \in DOMAIN s.localizedImages :
                          getBaseFilename(s.localizedImages[l].name)
                              = getBaseFilename(call.filename)
               K == {i \in 1..Len(call.screenshots) : SameBase(call.screenshots[i])}
           IN /\ K = {} => call.result = -1
              /\ K # {} => call.result + 1 \in K /\ \A i \in K : call.result + 1 <= i

\* ============================================== AI translation (C21)
\* isHeadline ? text.headlines : text.subheadlines, and the same for the lists
TargetField(target) == IF target = "headline" THEN "headlines" ELSE "subheadlines"
TargetLanguages(text, target) ==
    IF target = "headline" THEN text.headlineLanguages ELSE text.subheadlineLanguages

\* texts[lang] || ''
TextOr(map, lang) == IF Has(map, lang) /\ map[lang] # Null THEN map[lang] ELSE ""

\* openTranslateModal(target): the source select shows the first language,
\* one textarea per language holds the text stored for it
openTranslateModal(target) ==
    LET text == getText(state)
        languages == TargetLanguages(text, target)
        texts == text[TargetField(target)].map
    IN
    /\ modal' = [modal EXCEPT
                    !.target = target, !.visible = TRUE,
                    !.sourceLang = IF Len(languages) = 0 THEN "" ELSE languages[1],
                    !.items = [k \in 1..Len(languages) |->
                                  [lang |-> languages[k], value |-> TextOr(texts, languages[k])]]]
    /\ UNCHANGED <<state, db, store, currentProjectId, projects, canvas, side, sideClick,
                   slide, phoneModelLoaded, threeDefined, call, dup, pendingFiles, loads, exp,
                   md, currentTranslationsIndex, pendingTrans, lastSaved>>

\* setTranslateStatus(message, type)
Status(message, type) == [message |-> message, type |-> type]

\* aiTranslateAll up to its first await: the three early returns, then the
\* button is disabled and the request is sent; hasKey says whether
\* localStorage holds an API key for the provider
AiTranslateClick(hasKey) ==
    LET text == getText(state)
        texts == text[TargetField(modal.target)].map
        languages == TargetLanguages(text, modal.target)
        sourceText == TextOr(texts, modal.sourceLang)
        targetLangs == SelectSeq(languages, LAMBDA lang : lang # modal.sourceLang)
        fresh == [modal EXCEPT !.error = << >>, !.failure = "none"]
    IN
    /\ modal.visible /\ ~modal.disabled
    /\ modal' =
         IF sourceText = ""
         THEN [fresh EXCEPT !.status =
                  Status(<<"Please enter text in the source language first">>, "error")]
         ELSE IF Len(targetLangs) = 0
         THEN [fresh EXCEPT !.status = Status(<<"Add more languages to translate to">>, "error")]
         ELSE IF ~hasKey
         THEN [fresh EXCEPT !.status =
                  Status(<<"Add your API key in Settings to use AI translation.">>, "error")]
         ELSE [fresh EXCEPT !.disabled = TRUE, !.pc = "await", !.targetLangs = targetLangs,
                            !.status = Status(<<"Translating to", ToString(Len(targetLangs)),
                                                "language(s)...">>, "")]
    /\ UNCHANGED <<state, db, store, currentProjectId, projects, canvas, side, sideClick,
                   slide, phoneModelLoaded, threeDefined, call, dup, pendingFiles, loads, exp,
                   md, currentTranslationsIndex, pendingTrans, lastSaved>>

\* What the provider request can come to: fetch rejects with the engine's
\* message, or a response arrives with a status and, when OK, a text that
\* is a JSON object (json) or is not (its words)
Reply(kind, error, status, isJson, json, words) ==
    [kind |-> kind, error |-> error, status |-> status, isJson |-> isJson, json |-> json,
     words |-> words]
FetchErrors == {"Failed to fetch", "Load failed"}
Translations == {[l \in {} |-> ""], [l \in {"de"} |-> "Hallo"]}
Replies ==
    {Reply("rejected", e, "", FALSE, [l \in {} |-> ""], << >>) : e \in FetchErrors} \cup
    {Reply("response", "", s, FALSE, [l \in {} |-> ""], << >>) : s \in {"401", "403", "500"}} \cup
    {Reply("response", "", "200", TRUE, t, << >>) : t \in Translations} \cup
    {Reply("response", "", "200", FALSE, [l \in {} |-> ""], w) :
        w \in {<<"Sorry">>, <<"Error", "401">>}}

\* the failure a reply stands for
FailureOf(reply) ==
    IF reply.kind = "rejected" THEN "network"
    ELSE IF reply.status \in {"401", "403"} THEN "auth"
    ELSE IF reply.status # "200" THEN "request"
    ELSE IF ~reply.isJson THEN "malformed"
    ELSE "none"

\* error.message of what the try block throws on this reply, << >> when it
\* throws nothing: translateWithAnthropic / translateWithOpenAI, then
\* JSON.parse, whose SyntaxError message quotes the text in some engines
ErrorMessage(reply, quoting) ==
    IF reply.kind = "rejected" THEN <<reply.error>>
    ELSE IF reply.status \in {"401", "403"} THEN <<"AI_UNAVAILABLE">>
    ELSE IF reply.status # "200" THEN <<"API request failed:", reply.status>>
    ELSE IF ~reply.isJson
    THEN IF quoting THEN <<"Unexpected token,">> \o reply.words \o <<"is not valid JSON">>
         ELSE <<"Unexpected token in JSON">>
    ELSE << >>

\* a catch block that reports every error as a connection failure
CatchStatusConnection(message) ==
    Status(<<"Connection failed. Check your API key in Settings.">>, "error")

\* the catch block of aiTranslateAll
CatchStatus(message) ==
    IF message = <<"Failed to fetch">>
    THEN Status(<<"Connection failed. Check your API key in Settings.">>, "error")
    ELSE IF message = <<"AI_UNAVAILABLE">> \/ Includes(message, "401") \/ Includes(message, "403")
    THEN Status(<<"Invalid API key. Update it in Settings (gear icon).">>, "error")
    ELSE Status(<<"Translation failed: ">> \o message, "error")

\* the textareas after the translations were filled in for the target languages
Filled(items, targetLangs, translations) ==
    [k \in 1..Len(items) |->
        IF Includes(targetLangs, items[k].lang) /\ Has(translations, items[k].lang)
           /\ translations[items[k].lang] # ""
        THEN [items[k] EXCEPT !.value = translations[items[k].lang]]
        ELSE items[k]]

\* translatedCount
TranslatedCount(items, targetLangs, translations) ==
    Cardinality({k \in 1..Len(targetLangs) :
                    /\ Has(translations, targetLangs[k]) /\ translations[targetLangs[k]] # ""
                    /\ \E j \in 1..Len(items) : items[j].lang = targetLangs[k]})

\* aiTranslateAll from the reply to its end: try, catch and finally
AiReply(reply, quoting) ==
    LET message == ErrorMessage(reply, quoting) IN
    /\ modal.pc = "await"
    /\ modal' =
         IF message = << >>
         THEN [modal EXCEPT
                  !.items = Filled(modal.items, modal.targetLangs, reply.json),
                  !.status = Status(<<"Translated to",
                                      ToString(TranslatedCount(modal.items, modal.targetLangs,
                                                               reply.json)),
                                      "language(s)">>, "success"),
                  !.disabled = FALSE, !.pc = "idle", !.failure = "none"]
         ELSE [modal EXCEPT !.status = CatchStatus(message), !.error = message,
                            !.disabled = FALSE, !.pc = "idle", !.failure = FailureOf(reply)]
    /\ UNCHANGED <<state, db, store, currentProjectId, projects, canvas, side, sideClick,
                   slide, phoneModelLoaded, threeDefined, call, dup, pendingFiles, loads, exp,
                   md, currentTranslationsIndex, pendingTrans, lastSaved>>

\* the map after texts[lang] = textarea.value for every item, in order
PutItems(map, items) ==
    LET langs == {items[k].lang : k \in 1..Len(items)} IN
    [l \in (DOMAIN map) \cup langs |->
        IF l \in langs
        THEN items[CHOOSE k \in 1..Len(items) :
                      items[k].lang = l /\ \A j \in (k + 1)..Len(items) : items[j].lang # l].value
        ELSE map[l]]

\* applyTranslations up to saveState() and updateCanvas()
applyTranslations(st, target, items) ==
    LET field == TargetField(target)
        texts == getText(st)[field]
    IN MapHolders(st, LAMBDA c :
           IF c.text[field].id = texts.id
           THEN [c EXCEPT !.text[field].map = PutItems(@, items)]
           ELSE c)

\* click on Apply in the translate modal
TranslateModalApply ==
    /\ modal.visible
    /\ UpdateCanvas(applyTranslations(state, modal.target, modal.items))
    /\ modal' = [modal EXCEPT !.visible = FALSE]
    /\ UNCHANGED <<db, currentProjectId, slide, phoneModelLoaded, threeDefined, call, dup,
                   pendingFiles, loads, exp, md, currentTranslationsIndex, pendingTrans>>

NextTranslate ==
    \/ handleFiles("a.png")
    \/ \E k \in 1..MaxPending : ImgOnload(k)
    \/ HeadlineInput("Hi")
    \/ AddLanguageSelect("de")
    \/ \E target \in {"headline", "subheadline"} : openTranslateModal(target)
    \/ \E hasKey \in BOOLEAN : AiTranslateClick(hasKey)
    \/ \E reply \in Replies, quoting \in BOOLEAN : AiReply(reply, quoting)
    \/ TranslateModalApply

InitTranslate == Init /\ ~threeDefined
SpecTranslate == InitTranslate /\ [][NextTranslate]_vars

\* the headlines and subheadlines of every unit and of the defaults
AllTexts(st) ==
    <<[k \in 1..Len(st.screenshots) |->
          IF IsUnit(st.screenshots[k])
          THEN <<st.screenshots[k].text.headlines, st.screenshots[k].text.subheadlines>>
          ELSE << >>],
      st.defaults.text.headlines, st.defaults.text.subheadlines>>

\* the three failures the statement names
NamedFailures == {"network", "auth", "malformed"}

\* the status messages that replies of another named failure than `failure` end in
OtherMessages(failure) ==
    {CatchStatus(ErrorMessage(reply, quoting)).message :
        reply \in {r \in Replies : FailureOf(r) \in NamedFailures \ {failure}},
        quoting \in BOOLEAN}

\* a step of aiTranslateAll writes no headline and no subheadline
TranslateWritesNoText ==
    (modal.pc # modal'.pc \/ modal.status # modal'.status) => AllTexts(state') = AllTexts(state)

NamesAuthCode(message) == Includes(message, "401") \/ Includes(message, "403")

MaxParts == 3

\* A part of candidates[0].content.parts: inline image data, text, or neither
InlinePart(mimeType) ==
    [hasInlineData |-> TRUE, mimeType |-> mimeType, data |-> "AAAA", text |-> ""]
TextPart == [hasInlineData |-> FALSE, mimeType |-> "", data |-> "", text |-> "I cannot"]
OtherPart == [hasInlineData |-> FALSE, mimeType |-> "", data |-> "", text |-> ""]
PartSet == {InlinePart("image/png"), InlinePart("image/jpeg"), TextPart, OtherPart}
PartLists == UNION {[1..n -> PartSet] : n \in 0..MaxParts}

\* The JSON body of a response: data.candidates (absent, or the array),
\* candidates[0].content (absent or not) and content.parts (absent or not)
Body(hasCandidates, length, hasContent, hasParts, parts, hasMessage) ==
    [hasCandidates |-> hasCandidates, length |-> length, hasContent |-> hasContent,
     hasParts |-> hasParts, parts |-> parts, hasMessage |-> hasMessage]
NoBody == Body(FALSE, 0, FALSE, FALSE, << >>, FALSE)
OkBodies ==
    {NoBody, Body(TRUE, 0, FALSE, FALSE, << >>, FALSE), Body(TRUE, 1, FALSE, FALSE, << >>, FALSE),
     Body(TRUE, 1, TRUE, FALSE, << >>, FALSE)} \cup
    {Body(TRUE, 1, TRUE, TRUE, parts, FALSE) : parts \in PartLists}
ErrorBodies == {NoBody, Body(FALSE, 0, FALSE, FALSE, << >>, TRUE)}

\* What fetch comes to: it rejects, or a response arrives whose body parses
\* as JSON or does not
ImageReply(kind, status, parses, body) ==
    [kind |-> kind, status |-> status, parses |-> parses, body |-> body]
ImageReplies ==
    {ImageReply("rejected", "", FALSE, NoBody)} \cup
    {ImageReply("response", s, TRUE, b) : s \in {"400", "401", "403", "500"}, b \in ErrorBodies} \cup
    {ImageReply("response", s, FALSE, NoBody) : s \in {"200", "401", "500"}} \cup
    {ImageReply("response", "200", TRUE, b) : b \in OkBodies}

Returned(value) == [returned |-> TRUE, value |-> value, message |-> << >>]
Thrown(message) == [returned |-> FALSE, value |-> << >>, message |-> message]

\* parts.find(p => p.inlineData) and parts.find(p => p.text): the index of
\* the first such part, 0 for undefined
FindInline(parts) ==
    IF \E k \in 1..Len(parts) : parts[k].hasInlineData
    THEN CHOOSE k \in 1..Len(parts) :
            parts[k].hasInlineData /\ \A j \in 1..(k - 1) : ~parts[j].hasInlineData
    ELSE 0
FindText(parts) ==
    IF \E k \in 1..Len(parts) : parts[k].text # ""
    THEN CHOOSE k \in 1..Len(parts) : parts[k].text # "" /\ \A j \in 1..(k - 1) : parts[j].text = ""
    ELSE 0

\* generateImageWithGoogle that takes the first part whatever it carries
generateImageFirstPart(reply) ==
    LET body == reply.body IN
    IF reply.kind = "rejected" THEN Thrown(<<"Failed to fetch">>)
    ELSE IF reply.status # "200"
    THEN IF reply.status \in {"401", "403"} THEN Thrown(<<"AI_UNAVAILABLE">>)
         ELSE Thrown(<<"API request failed: ", reply.status, " - ",
                       IF reply.parses /\ body.hasMessage THEN "quota" ELSE "Unknown error">>)
    ELSE IF ~reply.parses THEN Thrown(<<"Unexpected token">>)
    ELSE IF ~body.hasCandidates \/ body.length = 0 \/ ~body.hasContent \/ ~body.hasParts
         \/ Len(body.parts) = 0
    THEN Thrown(<<"No image generated">>)
    ELSE Returned(<<"data:", body.parts[1].mimeType, ";base64,", body.parts[1].data>>)

\* generateImageWithGoogle(apiKey, prompt) on the reply to its request: the
\* value the promise resolves to, or the message of the error it rejects with
generateImageWithGoogle(reply) ==
    LET body == reply.body
        part == FindInline(body.parts)
        textPart == FindText(body.parts)
    IN
    IF reply.kind = "rejected" THEN Thrown(<<"Failed to fetch">>)
    ELSE IF reply.status # "200"
    THEN IF reply.status \in {"401", "403"} THEN Thrown(<<"AI_UNAVAILABLE">>)
         ELSE Thrown(<<"API request failed: ", reply.status, " - ",
                       IF reply.parses /\ body.hasMessage THEN "quota" ELSE "Unknown error">>)
    ELSE IF ~reply.parses THEN Thrown(<<"Unexpected token">>)
    ELSE IF ~body.hasCandidates \/ body.length = 0 \/ ~body.hasContent \/ ~body.hasParts
    THEN Thrown(<<"No image generated">>)
    ELSE IF part = 0
    THEN IF textPart # 0
         THEN Thrown(<<"AI returned text instead of image: ", body.parts[textPart].text>>)
         ELSE Thrown(<<"No image data in response">>)
    ELSE Returned(<<"data:", body.parts[part].mimeType, ";base64,", body.parts[part].data>>)

GenerateCall(reply) ==
    /\ call = NoCall
    /\ call' = [fn |-> "generateImageWithGoogle", reply |-> reply,
                result |-> generateImageWithGoogle(reply)]
    /\ UNCHANGED <<state, db, store, currentProjectId, projects, canvas, side, sideClick,
                   slide, phoneModelLoaded, threeDefined, modal, dup, pendingFiles, loads, exp, md,
                   currentTranslationsIndex, pendingTrans, lastSaved>>

NextGenerate ==
    \/ \E reply \in ImageReplies : GenerateCall(reply)
    \/ CallReturn

InitGenerate == Init /\ ~threeDefined
SpecGenerate == InitGenerate /\ [][NextGenerate]_vars

\* the response holds image data: it is OK, parses, and a part of
\* candidates[0].content.parts carries inlineData
HoldsImageData(reply) ==
    /\ reply.kind = "response" /\ reply.status = "200" /\ reply.parses
    /\ reply.body.hasCandidates /\ reply.body.length > 0
    /\ reply.body.hasContent /\ reply.body.hasParts
    /\ \E k \in 1..Len(reply.body.parts) : reply.body.parts[k].hasInlineData

\* the data URLs built from the parts of the response that carry inline data
UrlsOf(reply) ==
    {<<"data:", reply.body.parts[k].mimeType, ";base64,", reply.body.parts[k].data>> :
        k \in {j \in 1..Len(reply.body.parts) : reply.body.parts[j].hasInlineData}}

\* the one explicit condition that a response without image data stands for
ConditionOf(reply) ==
    IF reply.status \in {"401", "403"} THEN "auth"
    ELSE IF reply.status # "200" THEN "request"
    ELSE IF ~reply.body.hasCandidates \/ reply.body.length = 0 \/ ~reply.body.hasContent
            \/ ~reply.body.hasParts
    THEN "none produced"
    ELSE IF \E k \in 1..Len(reply.body.parts) : reply.body.parts[k].text # "" THEN "text"
    ELSE "no data"

\* the condition an error message states, "other" when it states none of the five
Stated(message) ==
    IF message = <<"AI_UNAVAILABLE">> THEN "auth"
    ELSE IF message[1] = "API request failed: " THEN "request"
    ELSE IF message = <<"No image generated">> THEN "none produced"
    ELSE IF message[1] = "AI returned text instead of image: " THEN "text"
    ELSE IF message = <<"No image data in response">> THEN "no data"
    ELSE "other"

\* the returned value is a data URL of a part with inline data; a failure
\* states the condition of the reply
OutcomeAsListed(reply, result) ==
    IF HoldsImageData(reply)
    THEN result.returned /\ result.value \in UrlsOf(reply)
    ELSE ~result.returned /\ Stated(result.message) = ConditionOf(reply)

OpenDatabaseFailure(k, how) ==
    /\ k \in 1..Len(loads)
    /\ loads[k].pc = "open"
    /\ how \in {"error", "blocked", "exception"}
    /\ loads' = RemoveAt(loads, k)
    /\ UpdateCanvasFrom(state, FALSE, side, "none")
    /\ UNCHANGED <<db, currentProjectId, slide, phoneModelLoaded, threeDefined, call, modal, dup,
                   pendingFiles, exp, md, currentTranslationsIndex, pendingTrans>>

UserDegraded ==
    \/ handleFiles("a.png")
    \/ \E k \in 1..MaxPending : ImgOnload(k)
    \/ \E index \in 0..(MaxUnits - 1) : DeleteButton(index)
    \/ \E noiseEnabled \in BOOLEAN : NoiseToggle(noiseEnabled)
    \/ BgImageOnload("bg.png")
    \/ HeadlineInput("Hi")

NextDegraded ==
    \/ loads = << >> /\ UserDegraded
    \/ Reload
    \/ \E k \in 1..MaxLoads : OpenDatabaseSuccess(k)
    \/ \E k \in 1..MaxLoads, how \in {"error", "blocked", "exception"} : OpenDatabaseFailure(k, how)
    \/ \E k \in 1..MaxLoads : LoadSuccess(k)
    \/ \E k \in 1..MaxLoads, index \in 0..(MaxUnits - 1) : LoadImgOnload(k, index)

InitDegraded == Init /\ ~threeDefined
SpecDegraded == InitDegraded /\ [][NextDegraded]_vars

\* nothing can be written: there is no database, or store.put throws
CannotWrite(st) == db # "open" \/ DataCloneError(st)

\* the four passes of updateCanvas have drawn `st`: its background, the
\* noise pass when its noise flag is set, the image of the selected unit
\* when there is one, and the text, in this order
WholePipeline(layers, st) ==
    /\ LayersOrdered(layers)
    /\ layers[1] = drawBackground(st)[1]
    /\ layers[Len(layers)] = drawText(st)[1]
    /\ (IsUnit(getCurrentScreenshot(st)) /\ ~use3DOf(getScreenshotSettings(st)))
          => \E k \in 1..Len(layers) : layers[k] = drawScreenshot(st)[1]

\* C23: while the database could not be opened, or the write of saveState
\* fails, no step changes a stored project, the step in which openDatabase
\* fails leaves the in-memory state and the project list as they were, and
\* after every handler the main canvas holds the whole render pipeline of
\* the in-memory state, the handler's change included.
PersistenceDegrades ==
    /\ [](CannotWrite(state) /\ loads = << >> => WholePipeline(canvas.layers, state))
    /\ [][CannotWrite(state') => store' = store]_vars
    /\ [][CannotWrite(state') /\ Len(loads') < Len(loads) /\ db' # "open"
            => state' = state /\ projects' = projects]_vars
    /\ [][CannotWrite(state') /\ loads = << >> /\ loads' = << >>
            => WholePipeline(canvas'.layers, state')]_vars

\* the database could not be opened, and a unit uploaded since then is drawn
\* over a noisy background while the stored project is unchanged
PersistenceDegradesWitness ==
    /\ db = "null" /\ loads = << >>
    /\ NumUnits(state) = 1
    /\ getBackground(state).noise
    /\ Ops(canvas.layers) = <<"background", "noise", "image2D", "text">>
    /\ currentProjectId \in DOMAIN store
    /\ Len(store[currentProjectId].screenshots) = 0

\* ============================================== text wrapping (C24)
MaxText == 6
MaxWrapWidth == 4

\* ctx.measureText(line).width in whole units: the advance widths of the
\* characters of the line added up ("i" is narrow, "m" is wide)
Advance(c) == IF c = "m" THEN 2 ELSE 1
RECURSIVE measureText(_)
measureText(line) ==
    IF Len(line) = 0 THEN 0 ELSE Advance(line[1]) + measureText(Tail(line))

\* text.split(' ')
RECURSIVE Split(_)
Split(text) ==
    IF \E k \in 1..Len(text) : text[k] = " "
    THEN LET k == CHOOSE i \in 1..Len(text) : text[i] = " " /\ \A j \in 1..(i - 1) : text[j] # " "
         IN <<SubSeq(text, 1, k - 1)>> \o Split(SubSeq(text, k + 1, Len(text)))
    ELSE <<text>>

\* the forEach of wrapText from word k on, breaking a line that reaches maxWidth
RECURSIVE WrapStrictFrom(_, _, _, _, _)
WrapStrictFrom(words, k, lines, currentLine, maxWidth) ==
    IF k > Len(words)
    THEN IF currentLine # << >> THEN Append(lines, currentLine) ELSE lines
    ELSE LET testLine == currentLine \o (IF currentLine # << >> THEN <<" ">> ELSE << >>) \o words[k]
         IN IF measureText(testLine) >= maxWidth /\ currentLine # << >>
            THEN WrapStrictFrom(words, k + 1, Append(lines, currentLine), words[k], maxWidth)
            ELSE WrapStrictFrom(words, k + 1, lines, testLine, maxWidth)

wrapTextStrict(text, maxWidth) == WrapStrictFrom(Split(text), 1, << >>, << >>, maxWidth)

\* the forEach of wrapText from word k on, then the push of the last line
RECURSIVE WrapFrom(_, _, _, _, _)
WrapFrom(words, k, lines, currentLine, maxWidth) ==
    IF k > Len(words)
    THEN IF currentLine # << >> THEN Append(lines, currentLine) ELSE lines
    ELSE LET testLine == currentLine \o (IF currentLine # << >> THEN <<" ">> ELSE << >>) \o words[k]
         IN IF measureText(testLine) > maxWidth /\ currentLine # << >>
            THEN WrapFrom(words, k + 1, Append(lines, currentLine), words[k], maxWidth)
            ELSE WrapFrom(words, k + 1, lines, testLine, maxWidth)

wrapText(text, maxWidth) == WrapFrom(Split(text), 1, << >>, << >>, maxWidth)

Texts == UNION {[1..n -> {"i", "m", " "}] : n \in 0..MaxText}

WrapCall(text, maxWidth) ==
    /\ call = NoCall
    /\ call' = [fn |-> "wrapText", text |-> text, maxWidth |-> maxWidth,
                result |-> wrapText(text, maxWidth)]
    /\ UNCHANGED <<state, db, store, currentProjectId, projects, canvas, side, sideClick,
                   slide, phoneModelLoaded, threeDefined, modal, dup, pendingFiles, loads, exp, md,
                   currentTranslationsIndex, pendingTrans, lastSaved>>

NextWrap ==
    \/ \E text \in Texts, maxWidth \in 1..MaxWrapWidth : WrapCall(text, maxWidth)
    \/ CallReturn

InitWrap == Init /\ ~threeDefined
SpecWrap == InitWrap /\ [][NextWrap]_vars

\* the words of a text: the non-empty pieces between its spaces
Words(text) == SelectSeq(Split(text), LAMBDA w : w # << >>)

\* the words of the lines, line after line
RECURSIVE WordsOfLines(_)
WordsOfLines(lines) ==
    IF Len(lines) = 0 THEN << >> ELSE Words(lines[1]) \o WordsOfLines(Tail(lines))

\* lines is a greedy wrap of text: the same words in the same order; every
\* line fits or is one word; no line could have taken the first word of the
\* next line as well; no line is empty
GreedyWrap(lines, text, maxWidth) ==
    /\ WordsOfLines(lines) = Words(text)
    /\ \A k \in 1..Len(lines) :
          /\ lines[k] # << >>
          /\ measureText(lines[k]) <= maxWidth \/ Len(Words(lines[k])) = 1
          /\ k < Len(lines) =>
                measureText(lines[k] \o <<" ">> \o Words(lines[k + 1])[1]) > maxWidth

\* C24: wrapText returns a greedy word wrap of its text: the words of the
\* lines, in order, are the words of the text; a line holds as many of the
\* remaining words as measure at most maxWidth (exactly maxWidth still
\* fits), a single wider word is a line by itself, unshortened; no line is empty.
WrapIsGreedy ==
    call.fn = "wrapText" => GreedyWrap(call.result, call.text, call.maxWidth)

\* a call has kept a line that measures exactly maxWidth, broken before the
\* word that would have made it wider, and left a wider word on its own line
WrapIsGreedyWitness ==
    /\ call.fn = "wrapText" /\ call.maxWidth = 3
    /\ call.text = <<"i", " ", "i", " ", "m", "m">>
    /\ call.result = << <<"i", " ", "i">>, <<"m", "m">> >>

\* ============================================== text layout (C25, C26)
\* Vertical positions are in hundredths of a pixel, so that
\* headlineSize * (lineHeight / 100), subheadlineSize * 1.4 and
\* dims.height * (offsetY / 100) are whole numbers.  `text` holds the
\* settings the layout reads and, as headline and subheadline, the texts of
\* the current languages ('' when the element is disabled).

\* ctx.fillText(line, dims.width / 2, y) under ctx.textBaseline; y is NaN
\* (isNaN) when it was computed from the undefined lastLineY
FillText(role, line, y, isNaN, textBaseline) ==
    [role |-> role, line |-> line, y |-> IF isNaN THEN 0 ELSE y, isNaN |-> isNaN,
     textBaseline |-> textBaseline]

\* dims.width - padding * 2 for wrapText, in advance units of the font size:
\* a line of u units measures u * size / 2 pixels, and padding is 8% of the width
MaxLineWidth(dims, size) == (dims.width * 168) \div (100 * size)

\* headline lines stacked downward from textY in either position
HeadlineYsDownward(text, textY, n) ==
    [i \in 1..n |-> textY + (i - 1) * (text.headlineSize * text.lineHeight)]

\* the y of the n headline lines: currentY + i * lineHeight, after currentY
\* was moved up by (n - 1) line heights in position 'bottom'
HeadlineYs(text, textY, n) ==
    LET lineHeight == text.headlineSize * text.lineHeight
        currentY == IF text.position = "bottom" THEN textY - (n - 1) * lineHeight ELSE textY
    IN [i \in 1..n |-> currentY + (i - 1) * lineHeight]

\* the subheadline started at the bottom edge of the headline, without a gap
SubheadlineYNoGap(text, lastLineY) ==
    IF text.position = "top" THEN lastLineY + 100 * text.headlineSize ELSE lastLineY

\* currentY after the headline: where the subheadline starts
SubheadlineY(text, lastLineY) ==
    LET lineHeight == text.headlineSize * text.lineHeight
        gap == lineHeight - 100 * text.headlineSize
    IN IF text.position = "top" THEN lastLineY + 100 * text.headlineSize + gap
       ELSE lastLineY + gap

\* drawTextToContext(ctx, dims, txt): the fillText calls in order and ctx.textBaseline at
\* the end ("alphabetic", the context's initial value, when nothing is set)
drawTextToContextLines(dims, text) ==
    LET textY == IF text.position = "top" THEN dims.height * text.offsetY
                 ELSE dims.height * (100 - text.offsetY)
        textBaseline == IF text.position = "top" THEN "top" ELSE "bottom"
        lines == IF text.headline # << >>
                 THEN wrapText(text.headline, MaxLineWidth(dims, text.headlineSize))
                 ELSE << >>
        ys == HeadlineYs(text, textY, Len(lines))
        noLastLine == text.headline # << >> /\ Len(lines) = 0
        currentY == IF text.headline = << >> THEN textY
                    ELSE IF noLastLine THEN 0
                    ELSE SubheadlineY(text, ys[Len(lines)])
        subLines == IF text.subheadline # << >>
                    THEN wrapText(text.subheadline, MaxLineWidth(dims, text.subheadlineSize))
                    ELSE << >>
        subLineHeight == text.subheadlineSize * 140
        subBaseline == IF text.position = "bottom" THEN "top" ELSE textBaseline
    IN IF text.headline = << >> /\ text.subheadline = << >>
       THEN [fills |-> << >>, textBaseline |-> "alphabetic"]
       ELSE [fills |->
                [i \in 1..Len(lines) |-> FillText("headline", lines[i], ys[i], FALSE, textBaseline)]
                \o [i \in 1..Len(subLines) |->
                       FillText("subheadline", subLines[i], currentY + (i - 1) * subLineHeight,
                                noLastLine, subBaseline)],
             textBaseline |-> IF text.subheadline # << >> /\ text.position = "bottom"
                              THEN "bottom" ELSE textBaseline]

\* drawText(): the fillText calls in order and ctx.textBaseline at
\* the end ("alphabetic", the context's initial value, when nothing is set)
drawTextLines(dims, text) ==
    LET textY == IF text.position = "top" THEN dims.height * text.offsetY
                 ELSE dims.height * (100 - text.offsetY)
        textBaseline == IF text.position = "top" THEN "top" ELSE "bottom"
        lines == IF text.headline # << >>
                 THEN wrapText(text.headline, MaxLineWidth(dims, text.headlineSize))
                 ELSE << >>
        ys == HeadlineYs(text, textY, Len(lines))
        noLastLine == text.headline # << >> /\ Len(lines) = 0
        currentY == IF text.headline = << >> THEN textY
                    ELSE IF noLastLine THEN 0
                    ELSE SubheadlineY(text, ys[Len(lines)])
        subLines == IF text.subheadline # << >>
                    THEN wrapText(text.subheadline, MaxLineWidth(dims, text.subheadlineSize))
                    ELSE << >>
        subLineHeight == text.subheadlineSize * 140
        subBaseline == IF text.position = "bottom" THEN "top" ELSE textBaseline
    IN IF text.headline = << >> /\ text.subheadline = << >>
       THEN [fills |-> << >>, textBaseline |-> "alphabetic"]
       ELSE [fills |->
                [i \in 1..Len(lines) |-> FillText("headline", lines[i], ys[i], FALSE, textBaseline)]
                \o [i \in 1..Len(subLines) |->
                       FillText("subheadline", subLines[i], currentY + (i - 1) * subLineHeight,
                                noLastLine, subBaseline)],
             textBaseline |-> IF text.subheadline # << >> /\ text.position = "bottom"
                              THEN "bottom" ELSE textBaseline]

LayoutDims == {[width |-> 1290, height |-> 2796], [width |-> 300, height |-> 600]}
Headlines == {<< >>, <<" ">>, <<"m", "m">>, <<"m", "m", " ", "m", "m">>,
              <<"m", "m", " ", "m", "m", " ", "m", "i">>}
Subheadlines == {<< >>, <<"i", "i">>, <<"i", "i", " ", "m", "m", " ", "m", "m">>}
LayoutTexts ==
    [position : {"top", "bottom"}, offsetY : {0, 12, 50}, headlineSize : {100, 200},
     lineHeight : {100, 120, 150}, subheadlineSize : {50, 150},
     headline : Headlines, subheadline : Subheadlines]

TextCall(fn, dims, text) ==
    /\ call = NoCall
    /\ call' = [fn |-> fn, dims |-> dims, text |-> text,
                result |-> IF fn = "drawText" THEN drawTextLines(dims, text)
                           ELSE drawTextToContextLines(dims, text)]
    /\ UNCHANGED <<state, db, store, currentProjectId, projects, canvas, side, sideClick,
                   slide, phoneModelLoaded, threeDefined, modal, dup, pendingFiles, loads, exp, md,
                   currentTranslationsIndex, pendingTrans, lastSaved>>

NextText ==
    \/ \E fn \in {"drawText", "drawTextToContext"}, dims \in LayoutDims, text \in LayoutTexts :
          TextCall(fn, dims, text)
    \/ CallReturn

InitText == Init /\ ~threeDefined
SpecText == InitText /\ [][NextText]_vars

\* the fillText calls of one role
FillsOf(result, role) == SelectSeq(result.fills, LAMBDA f : f.role = role)

\* the anchor: offsetY percent of the height from the top, or from the bottom
AnchorY(dims, text) ==
    IF text.position = "top" THEN dims.height * text.offsetY
    ELSE dims.height * (100 - text.offsetY)

\* LH = headlineSize * lineHeight / 100
LH(text) == text.headlineSize * text.lineHeight

Stacked(dims, text, result) ==
    LET fills == FillsOf(result, "headline")
        n == Len(fills)
    IN \A k \in 1..n :
          /\ ~fills[k].isNaN
          /\ text.position = "top" =>
                /\ fills[k].y = AnchorY(dims, text) + (k - 1) * LH(text)
                /\ fills[k].textBaseline = "top"
          /\ text.position = "bottom" =>
                /\ fills[k].y = AnchorY(dims, text) - (n - k) * LH(text)
                /\ fills[k].textBaseline = "bottom"
                /\ k = n => fills[k].y = AnchorY(dims, text)

\* C25: in drawText and in drawTextToContext, the n >= 1 wrapped headline
\* lines are drawn, in position 'top', line i at anchorY + i * LH with 'top'
\* baseline and, in position 'bottom', line i at anchorY - (n - 1 - i) * LH
\* with 'bottom' baseline, the last line exactly at the anchor.
HeadlineStacking ==
    call.fn \in {"drawText", "drawTextToContext"} => Stacked(call.dims, call.text, call.result)

\* three headline lines were drawn in position 'bottom' by drawTextToContext,
\* the last at the anchor and the first two line heights above it
HeadlineStackingWitness ==
    /\ call.fn = "drawTextToContext" /\ call.text.position = "bottom"
    /\ call.text.offsetY = 12 /\ call.dims.height = 600
    /\ call.text.headlineSize = 100 /\ call.text.lineHeight = 120
    /\ Len(FillsOf(call.result, "headline")) = 3
    /\ FillsOf(call.result, "headline")[3].y = 52800
    /\ FillsOf(call.result, "headline")[1].y = 52800 - 2 * 12000

Gapped(text, result) ==
    LET heads == FillsOf(result, "headline")
        subs == FillsOf(result, "subheadline")
        lastHeadlineLineY == heads[Len(heads)].y
        gap == LH(text) - 100 * text.headlineSize
    IN (Len(heads) >= 1 /\ Len(subs) >= 1) =>
          /\ subs[1].y = IF text.position = "top"
                         THEN lastHeadlineLineY + 100 * text.headlineSize + gap
                         ELSE lastHeadlineLineY + gap
          /\ \A k \in 1..Len(subs) :
                /\ ~subs[k].isNaN
                /\ subs[k].y = subs[1].y + (k - 1) * (140 * text.subheadlineSize)
                /\ subs[k].textBaseline = "top"
          /\ text.position = "bottom" => result.textBaseline = "bottom"

\* C26: with gap = LH - headlineSize, the first subheadline line is drawn at
\* lastHeadlineLineY + headlineSize + gap in position 'top' and at
\* lastHeadlineLineY + gap in position 'bottom'; the subheadline lines go
\* downward with 'top' baseline in steps of 1.4 * subheadlineSize, and after
\* a 'bottom' render the baseline is 'bottom' again.
SubheadlineGap ==
    call.fn \in {"drawText", "drawTextToContext"} => Gapped(call.text, call.result)

\* headlineSize 100 at lineHeight 120% in position 'top': the subheadline
\* was drawn 120 pixels under the top of the one headline line
SubheadlineGapWitness ==
    /\ call.fn = "drawText" /\ call.text.position = "top"
    /\ call.text.headlineSize = 100 /\ call.text.lineHeight = 120
    /\ Len(FillsOf(call.result, "headline")) = 1
    /\ Len(FillsOf(call.result, "subheadline")) = 2
    /\ FillsOf(call.result, "subheadline")[1].y
          = FillsOf(call.result, "headline")[1].y + 12000

\* ============================================== screenshot placement (C27)
\* The box of the image is kept in exact fractions: widths and heights are
\* numerators over den = 100 * img.width * img.height, left and top are
\* numerators over 100 * den.

\* the placement without the adjustment of an image that comes out too tall
PlaceImageUnadjusted(dims, img, settings) ==
    LET imgWidth == dims.width * settings.scale * img.width * img.height
        imgHeight == dims.width * settings.scale * img.height * img.height
        den == 100 * img.width * img.height
    IN [den |-> den, imgWidth |-> imgWidth, imgHeight |-> imgHeight,
        x |-> (dims.width * den - imgWidth) * settings.x,
        y |-> (dims.height * den - imgHeight) * settings.y]

\* imgWidth, imgHeight, x and y of drawScreenshot and drawScreenshotToContext:
\* the image as wide as scale percent of the canvas; when that makes it
\* taller than scale percent of the canvas height, as tall as that instead
PlaceImage(dims, img, settings) ==
    LET den == 100 * img.width * img.height
        wide == dims.width * settings.scale * img.width * img.height
        tall == dims.width * settings.scale * img.height * img.height
        limit == dims.height * settings.scale * img.width * img.height
        imgHeight == IF tall > limit THEN limit ELSE tall
        imgWidth == IF tall > limit
                    THEN dims.height * settings.scale * img.width * img.width ELSE wide
    IN [den |-> den, imgWidth |-> imgWidth, imgHeight |-> imgHeight,
        x |-> (dims.width * den - imgWidth) * settings.x,
        y |-> (dims.height * den - imgHeight) * settings.y]

PlaceDims == {[width |-> 1290, height |-> 2796], [width |-> 2796, height |-> 1290],
              [width |-> 300, height |-> 300]}
\* img.width and img.height, as aspect ratios in lowest terms
PlaceImages == {[width |-> 1, height |-> 2], [width |-> 2, height |-> 1],
                [width |-> 1, height |-> 1], [width |-> 1, height |-> 3],
                [width |-> 3, height |-> 4]}
PlaceSettings == [scale : {1, 70, 100}, x : {0, 50, 100}, y : {0, 55, 100}]

PlaceCall(fn, dims, img, settings) ==
    /\ call = NoCall
    /\ call' = [fn |-> fn, dims |-> dims, img |-> img, settings |-> settings,
                result |-> PlaceImage(dims, img, settings)]
    /\ UNCHANGED <<state, db, store, currentProjectId, projects, canvas, side, sideClick,
                   slide, phoneModelLoaded, threeDefined, modal, dup, pendingFiles, loads, exp, md,
                   currentTranslationsIndex, pendingTrans, lastSaved>>

NextPlace ==
    \/ \E fn \in {"drawScreenshot", "drawScreenshotToContext"}, dims \in PlaceDims,
          img \in PlaceImages, settings \in PlaceSettings : PlaceCall(fn, dims, img, settings)
    \/ CallReturn

InitPlace == Init /\ ~threeDefined
SpecPlace == InitPlace /\ [][NextPlace]_vars

\* the box has the aspect ratio of img, is at most scale percent of the
\* canvas in width and in height and exactly that in one of them, and lies
\* inside the canvas
BoxFits(dims, img, settings, box) ==
    /\ box.imgWidth * img.height = box.imgHeight * img.width
    /\ 100 * box.imgWidth <= dims.width * settings.scale * box.den
    /\ 100 * box.imgHeight <= dims.height * settings.scale * box.den
    /\ \/ 100 * box.imgWidth = dims.width * settings.scale * box.den
       \/ 100 * box.imgHeight = dims.height * settings.scale * box.den
    /\ 0 <= box.x /\ box.x + 100 * box.imgWidth <= 100 * dims.width * box.den
    /\ 0 <= box.y /\ box.y + 100 * box.imgHeight <= 100 * dims.height * box.den

\* C27: for every scale in (0,100], x and y in [0,100], canvas size and
\* source aspect ratio, the box the image is placed in keeps the source
\* aspect ratio, is at most scale percent of the canvas wide and high with
\* equality in one of the two, and lies inside the canvas.
PlacementGeometry ==
    call.fn \in {"drawScreenshot", "drawScreenshotToContext"} =>
        BoxFits(call.dims, call.img, call.settings, call.result)

\* a portrait image was placed on a landscape canvas at full scale in the
\* far corner: it takes the whole height and ends at the right edge
PlacementGeometryWitness ==
    /\ call.fn = "drawScreenshot"
    /\ call.dims = [width |-> 2796, height |-> 1290] /\ call.img = [width |-> 1, height |-> 3]
    /\ call.settings = [scale |-> 100, x |-> 100, y |-> 100]
    /\ call.result.imgHeight = 1290 * call.result.den
    /\ call.result.x + 100 * call.result.imgWidth = 100 * 2796 * call.result.den

\* ============================================== screenshot position (C28)
PresetNames == {"centered", "bleed-bottom", "bleed-top", "float-center", "tilt-left",
                "tilt-right", "perspective", "float-bottom"}

Preset(scale, x, y, rotation, perspective) ==
    [scale |-> scale, x |-> x, y |-> y, rotation |-> rotation, perspective |-> perspective]

\* presets whose bleed entries leave the canvas further than those of the code
presetsWide(preset) ==
    CASE preset = "bleed-bottom" -> Preset(85, 50, 150, 0, 0)
      [] preset = "bleed-top" -> Preset(85, 50, -50, 0, 0)
      [] OTHER -> Preset(70, 50, 50, 0, 0)

\* the presets table of applyPositionPreset
presets(preset) ==
    CASE preset = "centered" -> Preset(70, 50, 50, 0, 0)
      [] preset = "bleed-bottom" -> Preset(85, 50, 120, 0, 0)
      [] preset = "bleed-top" -> Preset(85, 50, -20, 0, 0)
      [] preset = "float-center" -> Preset(60, 50, 50, 0, 0)
      [] preset = "tilt-left" -> Preset(65, 50, 55, -8, 0)
      [] preset = "tilt-right" -> Preset(65, 50, 55, 8, 0)
      [] preset = "perspective" -> Preset(65, 50, 50, 0, 15)
      [] preset = "float-bottom" -> Preset(55, 50, 70, 0, 0)

\* applyPositionPreset(preset) up to updateCanvas()
applyPositionPreset(st, preset) ==
    LET p == presets(preset)
        s1 == setScreenshotSetting(st, <<"scale">>, p.scale)
        s2 == setScreenshotSetting(s1, <<"x">>, p.x)
        s3 == setScreenshotSetting(s2, <<"y">>, p.y)
        s4 == setScreenshotSetting(s3, <<"rotation">>, p.rotation)
    IN setScreenshotSetting(s4, <<"perspective">>, p.perspective)

\* click on a position preset button
PositionPresetClick(preset) ==
    /\ preset \in PresetNames
    /\ UpdateCanvas(applyPositionPreset(state, preset))
    /\ UNCHANGED <<db, currentProjectId, slide, phoneModelLoaded, threeDefined, call, modal, dup,
                   pendingFiles, loads, exp, md, currentTranslationsIndex, pendingTrans>>

\* input on the screenshot-x / screenshot-y slider, whose range is 0 to 100
ScreenshotPositionInput(key, value) ==
    /\ key \in {"x", "y"} /\ value \in 0..100
    /\ UpdateCanvas(setScreenshotSetting(state, <<key>>, value))
    /\ UNCHANGED <<db, currentProjectId, slide, phoneModelLoaded, threeDefined, call, modal, dup,
                   pendingFiles, loads, exp, md, currentTranslationsIndex, pendingTrans>>

UserPosition ==
    \/ handleFiles("a.png")
    \/ \E k \in 1..MaxPending : ImgOnload(k)
    \/ \E index \in 0..(MaxUnits - 1) : ItemClick(index)
    \/ TransferButton(0)
    \/ \E preset \in PresetNames : PositionPresetClick(preset)
    \/ ScreenshotPositionInput("x", 100)
    \/ ScreenshotPositionInput("y", 0)
    \/ MdStart("en")

NextPosition ==
    \/ md.pc = "idle" /\ UserPosition
    \/ MdApplyCopy(Null)

InitPosition == Init /\ ~threeDefined
SpecPosition == InitPosition /\ [][NextPosition]_vars

\* x and y of every unit's screenshot settings lie in the given ranges
PositionsWithin(xs, ys) ==
    \A k \in 1..Len(state.screenshots) :
        IsUnit(state.screenshots[k]) =>
            /\ state.screenshots[k].screenshot.x \in xs
            /\ state.screenshots[k].screenshot.y \in ys

\* C28 as stated: in every reachable state the screenshot position x and y
\* of every unit lie in [0,100], whatever position sliders, position
\* presets, style transfers and designer layouts were applied.
PositionInRange == PositionsWithin(0..100, 0..100)

\* C28, amended: x lies in [0,100] and y in [-20,120]; y leaves [0,100]
\* only through the presets 'bleed-top' (-20) and 'bleed-bottom' (120) and
\* through the transfer of such a style.
PositionInBleedRange == PositionsWithin(0..100, -20..120)

\* two units hold the y of the 'bleed-bottom' preset, one of them with x at
\* the maximum of its slider
PositionInBleedRangeWitness ==
    /\ NumUnits(state) = 2
    /\ \E k1, k2 \in 1..Len(state.screenshots) :
          /\ k1 # k2 /\ IsUnit(state.screenshots[k1]) /\ IsUnit(state.screenshots[k2])
          /\ state.screenshots[k1].screenshot.y = 120
          /\ state.screenshots[k2].screenshot.y = 120
          /\ state.screenshots[k1].screenshot.x = 100

\* ===================================================== render determinism
\* Settings that differ from those of every unit the page can hold: 3D mode
\* and noise on, another scale, the text at the bottom
OtherDefaults ==
    [InitialDefaults EXCEPT !.background.noise = TRUE, !.background.solid = "#ffffff",
                            !.screenshot.use3D = TRUE, !.screenshot.scale = 10,
                            !.text.position = "bottom", !.text.currentHeadlineLang = "de"]

Decoy ==
    [uid |-> 99, image |-> Null, background |-> OtherDefaults.background,
     screenshot |-> OtherDefaults.screenshot, text |-> OtherDefaults.text]

\* The inputs of a render of the unit at `index`: a state that holds the
\* canvas size and, at its position, the unit, and nothing else of `st`.
\* The rest is that of a page never used or, with `other`, a page whose
\* defaults, languages and remaining units are different ones.
Scene(st, index, dims, other) ==
    [InitialState EXCEPT
        !.screenshots = [k \in 1..(index + 1 + (IF other THEN 1 ELSE 0)) |->
                            IF k = index + 1 THEN st.screenshots[k]
                            ELSE IF other THEN Decoy ELSE Undefined],
        !.selectedIndex = index,
        !.transferTarget = IF other THEN 0 ELSE -1,
        !.currentLanguage = IF other THEN "de" ELSE "en",
        !.projectLanguages = IF other THEN <<"de", "en">> ELSE <<"en">>,
        !.defaults = IF other THEN OtherDefaults ELSE InitialDefaults,
        !.outputDevice = "custom",
        !.customWidth = dims.width,
        !.customHeight = dims.height]

NoiseOff(st, index) ==
    /\ IsUnit(UnitAt(st, index))
    /\ ~UnitAt(st, index).background.noise

\* The unit a side preview shows, by its distance from the selected one
SideOffset == [left |-> -1, farLeft |-> -2, right |-> 1, farRight |-> 2]

\* a step that drew the main canvas anew for a unit without noise
MainDrawn ==
    /\ canvas' # canvas
    /\ NoiseOff(state', state'.selectedIndex)

\* a step that drew a side preview anew for a unit without noise
SideDrawn(which) ==
    /\ side'[which].content # side[which].content
    /\ side'[which].content \notin {Blank, Stale}
    /\ NoiseOff(state', state'.selectedIndex + SideOffset[which])

\* a step whose handler assigns nothing before it calls updateCanvas(): a
\* click on the list item that is selected already, the output size that is
\* chosen already
RenderOnly ==
    \/ \E index \in ListIndices :
          index = state.selectedIndex /\ state.transferTarget = -1 /\ ItemClick(index)
    \/ OutputDeviceOption(state.outputDevice)

\* C29: with noise disabled, what a render draws is determined by the canvas
\* size, the unit's settings, the unit's image and the readiness of the 3D
\* backend: whenever updateCanvas draws the main canvas, or a side preview is
\* drawn, the result is what the same routine draws in a state that holds only
\* these inputs; and a render changes no unit, no defaults and no selection:
\* a step that only renders leaves them as they were, and the render that
\* ends a slide leaves the units and defaults alone and the selection at the
\* index the slide went to.
RenderDeterminism ==
    /\ [][MainDrawn =>
            \A other \in BOOLEAN :
                canvas' = MainCanvas(Scene(state', state'.selectedIndex, canvas'.dims, other),
                                     Ready')]_vars
    /\ [][\A which \in DOMAIN SideOffset : SideDrawn(which) =>
            LET index == state'.selectedIndex + SideOffset[which]
                dims == side'[which].content.dims
            IN /\ dims \in {getCanvasDimensions(state'), slide.dims}
               /\ \A other \in BOOLEAN :
                     side'[which].content
                        = renderScreenshotToCanvas(Scene(state', index, dims, other), index,
                                                   dims, Ready', Blank)]_vars
    /\ [][RenderOnly => state' = state]_vars
    /\ [][slide.pc = "animation" /\ slide'.pc = "frames" =>
            state' = [state EXCEPT !.selectedIndex = slide.newIndex]]_vars

\* The main canvas shows a unit without noise whose settings differ from the
\* defaults of the page (3D mode is on), with a side preview drawn next to it
RenderDeterminismWitness ==
    /\ NoiseOff(state, state.selectedIndex)
    /\ use3DOf(getScreenshotSettings(state))
    /\ ~use3DOf(state.defaults.screenshot)
    /\ canvas = MainCanvas(Scene(state, state.selectedIndex, canvas.dims, TRUE), Ready)
    /\ ~side.left.hidden
    /\ side.left.content \notin {Blank, Stale}
    /\ NoiseOff(state, state.selectedIndex - 1)

\* ============================================================== selection
\* the drop handler with a selection that stays at its index
ReorderIndexKept(screenshots, selectedIndex, dragged, index, dropAbove) ==
    LET above == IF dropAbove THEN index ELSE index + 1
        targetIndex == IF dragged < above THEN above - 1 ELSE above
    IN [screenshots |-> InsertAt(RemoveAt(screenshots, dragged + 1), targetIndex + 1,
                                 screenshots[dragged + 1]),
        selectedIndex |-> selectedIndex]

\* what the drop handler makes of state.screenshots and state.selectedIndex:
\* the two splices, and the selected index following the selected item
Reorder(screenshots, selectedIndex, dragged, index, dropAbove) ==
    LET above == IF dropAbove THEN index ELSE index + 1
        targetIndex == IF dragged < above THEN above - 1 ELSE above
        draggedItem == screenshots[dragged + 1]
        followed == IF selectedIndex = dragged THEN targetIndex
                    ELSE IF dragged < selectedIndex /\ targetIndex >= selectedIndex
                         THEN selectedIndex - 1
                    ELSE IF dragged > selectedIndex /\ targetIndex <= selectedIndex
                         THEN selectedIndex + 1
                    ELSE selectedIndex
    IN [screenshots |-> InsertAt(RemoveAt(screenshots, dragged + 1), targetIndex + 1,
                                 draggedItem),
        selectedIndex |-> followed]

\* drop of the dragged list item on the list item `index`, above or below its
\* middle; `dragged` is draggedScreenshotIndex, the index the dragstart
\* handler of an item of the displayed list stored
ItemDrop(dragged, index, dropAbove) ==
    LET moved == Reorder(state.screenshots, state.selectedIndex, dragged, index, dropAbove)
    IN
    /\ dragged \in ListIndices
    /\ index \in ListIndices
    /\ dragged # index
    /\ UpdateCanvas([state EXCEPT !.screenshots = moved.screenshots,
                                  !.selectedIndex = moved.selectedIndex])
    /\ UNCHANGED <<db, currentProjectId, slide, phoneModelLoaded, threeDefined, call, modal, dup,
                   pendingFiles, loads, exp, md, currentTranslationsIndex, pendingTrans>>

\* Uploads, selection, deletion and reordering in the list, slides and batch
\* export, with page reloads; the list and the previews are used once a load
\* has ended, the timers run on
UserSelection ==
    \/ handleFiles("a.png")
    \/ \E k \in 1..MaxPending : ImgOnload(k)
    \/ \E index \in 0..MaxUnits : ItemClick(index)
    \/ \E index \in 0..MaxUnits : DeleteButton(index)
    \/ \E dragged, index \in 0..MaxUnits, dropAbove \in BOOLEAN :
          ItemDrop(dragged, index, dropAbove)
    \/ \E which \in {"left", "right"} : SidePreviewClick(which)
    \/ ExportAllClick

NextSelection ==
    \/ loads = << >> /\ UserSelection
    \/ SlideThen
    \/ SlideEnd
    \/ ExportTimer
    \/ ExportDownload
    \/ Reload
    \/ \E k \in 1..MaxLoads : OpenDatabaseSuccess(k)
    \/ \E k \in 1..MaxLoads : LoadSuccess(k)
    \/ \E k \in 1..MaxLoads, index \in 0..(MaxUnits - 1) : LoadImgOnload(k, index)

InitSelection == Init /\ ~threeDefined
SpecSelection == InitSelection /\ [][NextSelection]_vars

\* C30: whenever the project has at least one unit and no load is in
\* progress, state.selectedIndex is the index of an entry of
\* state.screenshots, and that entry is a unit.
SelectionValid ==
    (loads = << >> /\ NumUnits(state) > 0) =>
        /\ state.selectedIndex >= 0
        /\ state.selectedIndex < Len(state.screenshots)
        /\ IsUnit(UnitAt(state, state.selectedIndex))

\* ================================================================ reorder
MaxList == 4           \* longest list of units that is reordered

\* a list of n units, each with settings of its own
UnitList(n) == [k \in 1..n |-> [uid |-> k, scale |-> 10 * k]]

\* the drop handler on a list of n units of which one is selected
ReorderCall(n, selectedIndex, dragged, index, dropAbove) ==
    /\ call = NoCall
    /\ dragged # index
    /\ call' = [fn |-> "drop", screenshots |-> UnitList(n), selectedIndex |-> selectedIndex,
                dragged |-> dragged, index |-> index, dropAbove |-> dropAbove,
                result |-> Reorder(UnitList(n), selectedIndex, dragged, index, dropAbove)]
    /\ UNCHANGED <<state, db, store, currentProjectId, projects, canvas, side, sideClick,
                   slide, phoneModelLoaded, threeDefined, modal, dup, pendingFiles, loads, exp, md,
                   currentTranslationsIndex, pendingTrans, lastSaved>>

NextReorder ==
    \/ \E n \in 2..MaxList :
          \E selectedIndex, dragged, index \in 0..(n - 1), dropAbove \in BOOLEAN :
              ReorderCall(n, selectedIndex, dragged, index, dropAbove)
    \/ CallReturn

InitReorder == Init /\ ~threeDefined
SpecReorder == InitReorder /\ [][NextReorder]_vars

\* the list without the entry at index i (0-based)
Except(screenshots, i) == RemoveAt(screenshots, i + 1)

\* the index (0-based) of the unit u in a list that holds it once
IndexIn(screenshots, u) == (CHOOSE k \in 1..Len(screenshots) : screenshots[k] = u) - 1

\* C33: a drop moves exactly the dragged unit: the other units are the same
\* and in the same order, the dragged unit is there once with its settings,
\* directly before the unit it was dropped on (upper half) or directly after
\* it (lower half), and the unit that was selected is the selected unit.
ReorderKeepsUnits ==
    call.fn = "drop" =>
        LET before == call.screenshots
            after == call.result.screenshots
            draggedItem == before[call.dragged + 1]
            onItem == before[call.index + 1]
        IN /\ Len(after) = Len(before)
           /\ Cardinality({k \in 1..Len(after) : after[k] = draggedItem}) = 1
           /\ Except(after, IndexIn(after, draggedItem)) = Except(before, call.dragged)
           /\ IndexIn(after, draggedItem)
                 = IndexIn(after, onItem) + (IF call.dropAbove THEN -1 ELSE 1)
           /\ call.result.selectedIndex \in 0..(Len(after) - 1)
           /\ after[call.result.selectedIndex + 1] = before[call.selectedIndex + 1]

\* A unit dragged from before the selected unit to the lower half of a unit
\* behind it: the selected unit has moved up by one
ReorderKeepsUnitsWitness ==
    /\ call.fn = "drop"
    /\ call.dragged < call.selectedIndex
    /\ call.index > call.selectedIndex
    /\ ~call.dropAbove
    /\ call.result.selectedIndex = call.selectedIndex - 1

\* ========================================================= style transfer
\* a unit as uploaded (0), or after the background, screenshot and text
\* handlers have changed its style and its headline (1, 2)
Styled(u, variant) ==
    IF variant = 1
    THEN [u EXCEPT !.background.noise = TRUE, !.background.image = "bg.png",
                   !.screenshot.scale = 50, !.text.headlineSize = 80,
                   !.text.headlines.map = Put(@, "en", "Hi")]
    ELSE IF variant = 2
    THEN [u EXCEPT !.screenshot.shadow.opacity = 10, !.text.position = "bottom",
                   !.text.headlines.map = Put(@, "en", "Yo"),
                   !.text.subheadlines.map = Put(@, "en", "Sub")]
    ELSE u

\* a project of three units in transfer mode for the unit at targetIndex
TransferState(variants, targetIndex) ==
    [FirstState EXCEPT
        !.screenshots = [k \in 1..3 |-> Styled(NewUnit(FirstState, k, "a.png", "a.png"),
                                                variants[k])],
        !.transferTarget = targetIndex]

TransferCall(variants, sourceIndex, targetIndex) ==
    /\ call = NoCall
    /\ sourceIndex # targetIndex
    /\ call' = [fn |-> "transferStyle", st |-> TransferState(variants, targetIndex),
                sourceIndex |-> sourceIndex, targetIndex |-> targetIndex,
                result |-> transferStyle(TransferState(variants, targetIndex),
                                         sourceIndex, targetIndex)]
    /\ UNCHANGED <<state, db, store, currentProjectId, projects, canvas, side, sideClick,
                   slide, phoneModelLoaded, threeDefined, modal, dup, pendingFiles, loads, exp, md,
                   currentTranslationsIndex, pendingTrans, lastSaved>>

\* indices 0..2 are units, index 3 is none
NextTransfer ==
    \/ \E variants \in [1..3 -> 0..2], sourceIndex, targetIndex \in 0..3 :
          TransferCall(variants, sourceIndex, targetIndex)
    \/ CallReturn

InitTransfer == Init /\ ~threeDefined
SpecTransfer == InitTransfer /\ [][NextTransfer]_vars

\* the style of a text object: all of it but the two content maps and the
\* identities
TextStyle(txt) == Del(Del(Del(txt, "headlines"), "subheadlines"), "id")

\* C37: after transferStyle(source, target) the target's background and
\* screenshot settings have the values of the source's, in objects of the
\* target's own; its text has the style of the source's and the headlines
\* and subheadlines maps the target had; the source, every other unit, the
\* defaults and the rest of the state are unchanged and transferTarget is
\* null.  Without a source or a target only transferTarget changes.
TransferCopiesStyle ==
    call.fn = "transferStyle" =>
        LET st == call.st
            source == UnitAt(st, call.sourceIndex)
            target == UnitAt(st, call.targetIndex)
            after == UnitAt(call.result, call.targetIndex)
        IN IF IsUnit(source) /\ IsUnit(target)
           THEN /\ StripBackground(after.background) = StripBackground(source.background)
                /\ StripScreenshot(after.screenshot) = StripScreenshot(source.screenshot)
                /\ TextStyle(after.text) = TextStyle(source.text)
                /\ after.text.headlines = target.text.headlines
                /\ after.text.subheadlines = target.text.subheadlines
                /\ after.background.id = target.uid
                /\ after.screenshot.id = target.uid
                /\ after.text.id = target.uid
                /\ call.result = [st EXCEPT !.screenshots[call.targetIndex + 1] = after,
                                            !.transferTarget = -1]
                /\ after = [target EXCEPT !.background = after.background,
                                          !.screenshot = after.screenshot,
                                          !.text = after.text]
           ELSE call.result = [st EXCEPT !.transferTarget = -1]

\* A style with a background image is transferred to a unit whose headline
\* differs from the source's, next to a third unit
TransferCopiesStyleWitness ==
    /\ call.fn = "transferStyle"
    /\ IsUnit(UnitAt(call.st, call.sourceIndex))
    /\ IsUnit(UnitAt(call.st, call.targetIndex))
    /\ UnitAt(call.st, call.sourceIndex).background.image # Null
    /\ UnitAt(call.st, call.sourceIndex).text.headlines.map
          # UnitAt(call.st, call.targetIndex).text.headlines.map
    /\ UnitAt(call.result, call.targetIndex).background.image = "bg.png"

\* ======================================================= slide transitions
\* Uploads, selection and deletion in the list and clicks on the side
\* previews; the 300 ms timer of a slide and its two animation frames are
\* not held back for ever
NextSlide ==
    \/ handleFiles("a.png")
    \/ \E k \in 1..MaxPending : ImgOnload(k)
    \/ \E index \in 0..MaxUnits : ItemClick(index)
    \/ \E index \in 0..MaxUnits : DeleteButton(index)
    \/ \E which \in {"left", "right"} : SidePreviewClick(which)
    \/ SlideThen
    \/ SlideEnd

InitSlide == Init /\ ~threeDefined
SpecSlide == InitSlide /\ [][NextSlide]_vars /\ WF_vars(SlideThen) /\ WF_vars(SlideEnd)

\* isSliding
Sliding == slide.pc # "idle"

\* C38: while isSliding is true no slide is started; every slide that was
\* started ends (isSliding is false again; skipSidePreviewRender is true
\* only inside the completion), and its completion leaves state.selectedIndex
\* at the target index of the slide, which is then the index of a unit.
SlidesComplete ==
    /\ [][Sliding /\ Sliding' => slide'.newIndex = slide.newIndex]_vars
    /\ (Sliding ~> ~Sliding)
    /\ [][slide.pc = "animation" /\ slide'.pc = "frames" =>
            /\ state'.selectedIndex = slide.newIndex
            /\ IsUnit(UnitAt(state', slide.newIndex))]_vars

\* ===================================================== the global language
\* C35: the current headline and subheadline language of every unit is
\* state.currentLanguage, and is one of state.projectLanguages.
UnitsShowGlobalLanguage ==
    \A k \in 1..Len(state.screenshots) :
        IsUnit(state.screenshots[k]) =>
            LET text == state.screenshots[k].text
            IN /\ text.currentHeadlineLang = state.currentLanguage
               /\ text.currentSubheadlineLang = state.currentLanguage
               /\ Includes(state.projectLanguages, text.currentHeadlineLang)
               /\ Includes(state.projectLanguages, text.currentSubheadlineLang)

\* ========================================================= generated copy
\* A run of the designer (without a generated background) with uploads,
\* deletions and reorders in the list while its request is in flight
NextCopy ==
    \/ handleFiles("a.png")
    \/ \E k \in 1..MaxPending : ImgOnload(k)
    \/ \E index \in 0..MaxUnits : DeleteButton(index)
    \/ \E dragged, index \in 0..MaxUnits, dropAbove \in BOOLEAN :
          ItemDrop(dragged, index, dropAbove)
    \/ HeadlineInput("Hi")
    \/ MdStart("en")
    \/ MdApplyCopy(Null)

InitCopy == Init /\ ~threeDefined
SpecCopy == InitCopy /\ [][NextCopy]_vars

\* the uids that copy was ever generated for
CopyUids == 1..4

\* the unit holds, in some language, copy generated for the image of `uid`
HoldsCopyFor(u, uid) ==
    \/ \E l \in DOMAIN u.text.headlines.map : u.text.headlines.map[l] = HeadlineFor(uid)
    \/ \E l \in DOMAIN u.text.subheadlines.map :
          u.text.subheadlines.map[l] = SubheadlineFor(uid)

\* C32: no unit holds a headline or subheadline that was generated for the
\* image of another unit: the copy of the k-th image of a request is written
\* to the unit the image was collected from.
CopyReachesItsUnit ==
    \A k \in 1..Len(state.screenshots) :
        IsUnit(state.screenshots[k]) =>
            \A uid \in CopyUids \ {state.screenshots[k].uid} :
                ~HoldsCopyFor(state.screenshots[k], uid)

\* ====================================================== translation images
\* Uploads, a second language, the translations modal opened for a unit and
\* closed, and image files chosen in it and decoded
NextTransImage ==
    \/ handleFiles("a.png")
    \/ \E k \in 1..MaxPending : ImgOnload(k)
    \/ AddLanguageSelect("de")
    \/ \E index \in 0..(MaxUnits - 1) : openScreenshotTranslationsModal(index)
    \/ closeScreenshotTranslationsModal
    \/ \E lang \in {"en", "de"} : handleTranslationFileSelect(lang, "t.png")
    \/ \E k \in 1..MaxPending : TranslationImgOnload(k)

InitTransImage == Init /\ ~threeDefined
SpecTransImage == InitTransImage /\ [][NextTransImage]_vars

\* the unit holds the decoded file as its image for the language
HoldsLocalized(u, lang, name) ==
    /\ Has(u, "localizedImages")
    /\ lang \in DOMAIN u.localizedImages
    /\ u.localizedImages[lang].name = name

LocalizedOf(u) == IF Has(u, "localizedImages") THEN u.localizedImages ELSE << >>

\* C36: when the decode of an image chosen in the translations modal of a
\* unit ends, the image is that unit's localized image for the chosen
\* language, the language is a project language, and the localized images of
\* no other unit have changed.
TranslationImageLands ==
    [][\A k \in 1..Len(pendingTrans) :
          pendingTrans' = RemoveAt(pendingTrans, k) =>
            \A j \in 1..Len(state'.screenshots) :
               LET u == state'.screenshots[j]
               IN IF u.uid = pendingTrans[k].unit
                  THEN /\ HoldsLocalized(u, pendingTrans[k].lang, pendingTrans[k].name)
                       /\ Includes(state'.projectLanguages, pendingTrans[k].lang)
                  ELSE LocalizedOf(u) = LocalizedOf(state.screenshots[j])]_vars


\* ---------------------------------------------------------------------------
\* The duplicate-screenshot dialog (part_001:438-565)
\* ---------------------------------------------------------------------------

\* dialogs shown in one run of the model
MaxDialogs == 3

DuplicateChoices == {"replace", "create", "ignore"}

\* resolve(value) of the k-th promise: a promise settles once, a later call
\* of its resolve function changes nothing; resolve 0 is the null resolver
Resolve(promises, k, value) ==
    IF k = 0 \/ promises[k] # "pending" THEN promises
    ELSE [promises EXCEPT ![k] = value]

\* showDuplicateDialog(params): the executor stores the new promise's resolve
\* function, resolves with 'create' when the modal element is missing, and
\* otherwise stores the parameters and shows the modal
showDuplicateDialog ==
    /\ Len(dup.promises) < MaxDialogs
    /\ LET k == Len(dup.promises) + 1
           created == Append(dup.promises, "pending")
       IN dup' = IF ~dup.element
                 THEN [dup EXCEPT !.currentDuplicateResolve = k,
                                  !.promises = Resolve(created, k, "create")]
                 ELSE [dup EXCEPT !.currentDuplicateResolve = k,
                                  !.promises = created,
                                  !.newName = k,
                                  !.visible = TRUE]
    /\ UNCHANGED <<state, db, store, currentProjectId, projects, canvas, side, sideClick,
                   slide, phoneModelLoaded, threeDefined, call, modal, pendingFiles, loads,
                   exp, md, currentTranslationsIndex, pendingTrans, lastSaved>>

\* closeDuplicateDialog(choice)
closeDuplicateDialog(choice) ==
    /\ dup' = [dup EXCEPT !.visible = FALSE,
                          !.promises = Resolve(dup.promises, dup.currentDuplicateResolve,
                                               choice),
                          !.currentDuplicateResolve = 0,
                          !.newName = 0]
    /\ UNCHANGED <<state, db, store, currentProjectId, projects, canvas, side, sideClick,
                   slide, phoneModelLoaded, threeDefined, call, modal, pendingFiles, loads,
                   exp, md, currentTranslationsIndex, pendingTrans, lastSaved>>

\* a click on one of the three buttons of the dialog, which are part of the
\* modal and can be clicked while it is shown (initDuplicateDialogListeners)
DuplicateButtonClick ==
    /\ dup.visible
    /\ \E choice \in DuplicateChoices : closeDuplicateDialog(choice)

NextDuplicate ==
    \/ showDuplicateDialog
    \/ DuplicateButtonClick
    \/ handleFiles("a.png")
    \/ \E k \in 1..MaxPending : ImgOnload(k)

InitDuplicate ==
    /\ InitPage
    /\ ~threeDefined
    /\ \E element \in BOOLEAN : dup = ClosedDialog(element)

\* a shown dialog stays on the screen until the user clicks one of its buttons
SpecDuplicate == InitDuplicate /\ [][NextDuplicate]_vars /\ WF_vars(DuplicateButtonClick)

\* C39: every promise returned by showDuplicateDialog eventually resolves,
\* also when a second dialog is shown before the first one has been closed;
\* it resolves with the choice of the click that closes its dialog, or with
\* 'create' when the modal element is missing, and keeps that value
DialogsResolve ==
    /\ \A k \in 1..MaxDialogs :
          (Len(dup.promises) >= k)
              ~> (Len(dup.promises) >= k /\ dup.promises[k] # "pending")
    /\ [][\A k \in 1..Len(dup.promises) :
             /\ dup.promises[k] # "pending" => dup'.promises[k] = dup.promises[k]
             /\ ~dup.element => dup.promises[k] = "create"]_vars


\* ---------------------------------------------------------------------------
\* Projects: switchProject, createProject, deleteProject (part_001:1769-1830)
\* ---------------------------------------------------------------------------

\* ids that 'project_' + Date.now() yields in one run of the model
NewProjectIds == {"project_1"}

\* loadState invocations in flight while projects are switched: a project is
\* switched once the load of the previous switch has finished
MaxProjectLoads == 1

ListedIds(projs) == {projs[k].id : k \in 1..Len(projs)}

\* ids that a project has or had: Date.now() does not return them again
KnownIds == ListedIds(projects) \cup DOMAIN store \cup {loads[k].pid : k \in 1..Len(loads)}

\* switchProject(projectId), called with the projects list and the store as
\* its caller left them: saveState() under the id that is still current, the
\* new id, resetStateToDefaults(), and loadState() issuing its request (the
\* rest of switchProject runs after request.onsuccess, see LoadSuccess); with
\* no database saveState and loadState return at once and the rest follows
switchProject(projectId, projs, stored) ==
    LET reset == resetStateToDefaults(state)
    IN
    /\ Len(loads) < MaxProjectLoads
    /\ currentProjectId' = projectId
    /\ state' = reset
    /\ IF db = "open"
       THEN /\ store' = StoreAfterSave(state, db, currentProjectId, stored)
            /\ projects' = ProjectsAfterSave(state, db, currentProjectId, projs)
            /\ lastSaved' = SavedAfter(state, "none")
            /\ loads' = Append(loads, [pc |-> "request", pid |-> projectId, items |-> << >>,
                                       todo |-> {}, loadedCount |-> 0])
            /\ UNCHANGED <<canvas, side, sideClick>>
       ELSE /\ store' = stored
            /\ projects' = projs
            /\ lastSaved' = SavedAfter(reset, "none")
            /\ canvas' = MainCanvas(reset, Ready)
            /\ side' = updateSidePreviews(reset, FALSE, Ready, side)
            /\ sideClick' = SideClickAfter(reset)
            /\ UNCHANGED loads
    /\ UNCHANGED <<db, slide, phoneModelLoaded, threeDefined, call, modal, dup, pendingFiles,
                   exp, md, currentTranslationsIndex, pendingTrans>>

\* click on an option of the project menu
ProjectOptionClick(projectId) ==
    /\ projectId \in ListedIds(projects)
    /\ projectId # currentProjectId
    /\ switchProject(projectId, projects, store)

\* createProject(name)
createProject(name) ==
    /\ NewProjectIds \ KnownIds # {}
    /\ LET id == CHOOSE q \in NewProjectIds \ KnownIds : TRUE
       IN switchProject(id, Append(projects, [id |-> id, name |-> name, screenshotCount |-> 0]),
                        store)

\* projects.splice(index, 1) for the index of the current project
WithoutCurrent(projs, pid) ==
    LET index == IF pid \in ListedIds(projs)
                 THEN CHOOSE k \in 1..Len(projs) :
                         projs[k].id = pid /\ \A j \in 1..(k - 1) : projs[j].id # pid
                 ELSE 0
    IN IF index = 0 THEN projs ELSE RemoveAt(projs, index)

\* store.delete(currentProjectId)
StoreAfterDelete(dbh, pid, old) ==
    IF dbh # "open" THEN old ELSE [q \in DOMAIN old \ {pid} |-> old[q]]


\* deleteProject(): returns after the alert when it is the only project
deleteProject ==
    /\ Len(projects) > 1
    /\ LET projs == WithoutCurrent(projects, currentProjectId)
       IN switchProject(projs[1].id, projs, StoreAfterDelete(db, currentProjectId, store))

\* the user keeps the files of the projects apart: the file uploaded while a
\* project is current tells which project it was uploaded to
FileOf(pid) == IF pid = "default" THEN "a.png" ELSE "b.png"

NextProjects ==
    \/ handleFiles(FileOf(currentProjectId))
    \/ \E k \in 1..MaxPending : ImgOnload(k)
    \/ \E projectId \in {"default"} \cup NewProjectIds : ProjectOptionClick(projectId)
    \/ createProject("Project")
    \/ deleteProject
    \/ \E k \in 1..MaxProjectLoads : LoadSuccess(k)
    \/ \E k \in 1..MaxProjectLoads, index \in 0..(MaxUnits - 1) : LoadImgOnload(k, index)

InitProjects == Init /\ ~threeDefined
SpecProjects == InitProjects /\ [][NextProjects]_vars

\* C31: projects do not leak into each other: the units of `state` are units
\* of the current project, decoded from its stored record or uploaded to it,
\* also when an image decode started in another project finishes after the
\* switch, and no unit of another project is stored under a project's id
ProjectsDoNotLeak ==
    /\ \A k \in 1..Len(state.screenshots) :
          IsUnit(state.screenshots[k]) => state.screenshots[k].image = FileOf(currentProjectId)
    /\ \A q \in DOMAIN store : \A k \in 1..Len(store[q].screenshots) :
          IsUnit(store[q].screenshots[k]) => store[q].screenshots[k].src = FileOf(q)

\* C34: a deleted project leaves no record: once deleteProject has run, the
\* projects list does not contain the deleted id, the current id is the id of
\* a listed project, and the store holds no record under the deleted id
DeletedLeavesNoRecord ==
    [][deleteProject =>
          /\ currentProjectId \notin ListedIds(projects')
          /\ currentProjectId' \in ListedIds(projects')
          /\ currentProjectId \notin DOMAIN store']_vars

====
